---- MODULE Spec2Model ----
(***************************************************************************)
(* Credential exchange of the Shopify admin app: one-time tickets and the  *)
(* merchant config kept in the Prisma store, access keys                   *)
(* (ECommerceAppData), sessions and store plans kept in the external       *)
(* document store, and the request handlers that read and write them.      *)
(* Every awaited store call of a handler is one step of a request, so      *)
(* that two requests interleave exactly where the code suspends.           *)
(***************************************************************************)
EXTENDS Integers, FiniteSets, Sequences, TLC

(* ------------------------------ bounds --------------------------------- *)

MaxTickets == 1

MaxKeys == 2

MaxTime == 6

(* --------------------------- value domains ----------------------------- *)

Shops == {"a.myshopify.com", "b.myshopify.com"}

Procs == {"r1", "r2"}

Null == "null"

NoId == 0

\* a request whose body is not JSON: request.json() throws
NoBody == -1

TicketIds == 1..MaxTickets

Keys == 1..MaxKeys

\* api.ticket.create.tsx:23 - 5 * 60 * 1000 ms, the clock counts minutes
TicketTTL == 5

\* the OAuth access token the platform issued to a shop
AccessTokenOf(s) == "shpat:" \o s

\* process.env.SHOPIFY_API_KEY: one key for the whole app
ApiKey == "app-api-key"

\* the email address the merchant of a shop types into the dashboard
EmailOf(s) == "owner@" \o s

\* the builder payload the builder saves for a shop
BuilderDataOf(s) == "scene:" \o s

\* name of the per-tenant database of a shop's provisioned project
DbNameOf(s) == "db:" \o s

\* id of the offline session of a shop (shopify-api getOfflineId)
OfflineId(s) == "offline_" \o s

VARIABLES
    now,            \* wall clock (new Date()), in minutes
    tickets,        \* prisma.oneTimeTicket: ticket -> [shop, used, expiresAt]
    nextTicket,     \* the next uuid the store hands out for a ticket
    merchantConfig, \* prisma.merchantConfig: shop -> [accessToken, apiKey, builderData]
    prismaSessions, \* prisma.session: the shops that have a session row
    ecomData,       \* ECommerceAppData: key -> [command, shop, dbName, accessToken, apiKey, email, paymentMode]
    nextKey,        \* the next key the document store generates
    sessionDocs,    \* ShopifySessions: session id -> document
    storeData,      \* the shops a StoreData document (a provisioned project) exists for
    storePlan,      \* StoreData.metadata.paymentPlan: dbName -> plan
    procs,          \* the requests in flight: where each handler is, and its locals
    response,       \* the response sent last, with the request it answers
    minted,         \* history: ticket -> the shop it was created for
    redeemed,       \* history: ticket -> number of exchanges that returned its credentials
    issued,         \* history: key -> the configure call that returned it: shop, email, proj, isNew, doc
    requested       \* history: <<shop, plan>> of the billing requests that were issued

vars == <<now, tickets, nextTicket, merchantConfig, prismaSessions, ecomData,
          nextKey, sessionDocs, storeData, storePlan, procs, response,
          minted, redeemed, issued, requested>>

prismaVars == <<tickets, nextTicket, merchantConfig, prismaSessions>>

docVars == <<ecomData, nextKey, sessionDocs, storeData, storePlan>>

histVars == <<minted, redeemed, issued, requested>>

(* ------------------------------ requests ------------------------------- *)

NoOut ==
    [shop |-> Null, accessToken |-> Null, apiKey |-> Null, email |-> Null,
     dbName |-> Null, builderData |-> Null, paymentMode |-> Null,
     plan |-> Null, isNew |-> FALSE, id |-> NoId]

\* an ECommerceAppData document: command and the data object
NoDoc ==
    [command |-> Null, shop |-> Null, dbName |-> Null, accessToken |-> Null,
     apiKey |-> Null, email |-> Null, paymentMode |-> Null]

\* no onlineAccessInfo (undefined)
NoInfo ==
    [id |-> Null, email |-> Null, account_owner |-> FALSE,
     associated_user_scope |-> Null, expires_in |-> 0]

\* no session (undefined)
NoSession ==
    [id |-> Null, shop |-> Null, state |-> Null, isOnline |-> FALSE,
     scope |-> Null, accessToken |-> Null, onlineAccessInfo |-> NoInfo]

\* a request slot: op/pc say where the handler is, the rest are its locals.
\* Observations kept with the request: fault, a store call of the request
\* failed; after, an exchange of the same ticket had returned credentials
\* before this one started (for an uninstall: the last response sent was a
\* completed uninstall of the same shop; for a configure: another configure
\* of the same shop was in flight when this one started); proj, the shop
\* had a project when the request started; calls, the calls the request has made of the stores and of the
\* billing platform; param and plan, the plan parameter of a billing
\* callback and the plan it resolved (for loadSession, the id asked for);
\* caller, the shop of the platform
\* session the request is authenticated with; session, the session object a
\* session-storage call stores or returns; log, the entries the handler
\* wrote to the console; expired, the ticket was past expiresAt when the
\* request read it
Idle ==
    [op |-> "none", pc |-> "idle", shop |-> Null, id |-> NoId,
     email |-> Null, dbName |-> Null, doc |-> NoDoc, fault |-> FALSE,
     after |-> FALSE, proj |-> FALSE, calls |-> {}, param |-> Null,
     plan |-> Null, caller |-> Null, session |-> NoSession, log |-> {},
     expired |-> FALSE]

NoResponse ==
    [op |-> "none", shop |-> Null, id |-> NoId, email |-> Null,
     fault |-> FALSE, after |-> FALSE, proj |-> FALSE, calls |-> {},
     param |-> Null, plan |-> Null, caller |-> Null, session |-> NoSession,
     log |-> {}, expired |-> FALSE, result |-> "none", out |-> NoOut]

Free(p) == procs[p].pc = "idle"

\* the response to request r: outcome res and body o
Reply(r, res, o) ==
    [op |-> r.op, shop |-> r.shop, id |-> r.id, email |-> r.email,
     fault |-> r.fault, after |-> r.after, proj |-> r.proj, calls |-> r.calls,
     param |-> r.param, plan |-> r.plan, caller |-> r.caller,
     session |-> r.session, log |-> r.log, expired |-> r.expired,
     result |-> res, out |-> o]

\* HTTP status of a REST response
Status(res) ==
    CASE res = "Credentials" -> 200
      [] res = "Config" -> 200
      [] res = "AccessKey" -> 200
      [] res = "Ticket" -> 200
      [] res = "Ack" -> 200
      [] res = "Dashboard" -> 200
      [] res = "ConfirmationUrl" -> 200
      [] res = "InvalidBody" -> 400
      [] res = "InvalidPlan" -> 400
      [] res = "BillingFailed" -> 500
      [] res = "LoginRedirect" -> 302
      [] res = "AppRedirect" -> 302
      [] res = "TicketRequired" -> 400
      [] res = "KeyRequired" -> 400
      [] res = "EmailRequired" -> 400
      [] res = "Valid" -> 200
      [] res = "NotValid" -> 200
      [] res = "GraphQLError" -> 200
      [] res = "Unauthorized" -> 401
      [] res = "InvalidTicket" -> 401
      [] res = "TicketExpired" -> 401
      [] res = "InvalidKey" -> 401
      [] res = "ConfigNotFound" -> 404
      [] res = "InternalError" -> 500
      [] OTHER -> 0

Drop(f, k) == [x \in DOMAIN f \ {k} |-> f[x]]

Put(f, k, v) == [x \in DOMAIN f \cup {k} |-> IF x = k THEN v ELSE f[x]]

(* ------------------------------- clock --------------------------------- *)

\* time passes: one minute more than the lifetime of a ticket
Tick ==
    /\ now + TicketTTL + 1 <= MaxTime
    /\ now' = now + TicketTTL + 1
    /\ UNCHANGED <<prismaVars, docVars, procs, response, histVars>>

(* ------------------------- merchant config ----------------------------- *)

\* resolvers.ts syncMerchantCredentials: upsert by shop
SyncMerchantCredentials(shop, accessToken, apiKey) ==
    /\ merchantConfig' =
          IF shop \in DOMAIN merchantConfig
          THEN [merchantConfig EXCEPT ![shop].accessToken = accessToken,
                                      ![shop].apiKey = apiKey]
          ELSE Put(merchantConfig, shop,
                   [accessToken |-> accessToken, apiKey |-> apiKey,
                    builderData |-> Null])
    /\ UNCHANGED <<now, tickets, nextTicket, prismaSessions, docVars, procs,
                   response, histVars>>

\* the afterAuth hook calls it with the session the OAuth handshake produced
AfterAuth == \E s \in Shops : SyncMerchantCredentials(s, AccessTokenOf(s), ApiKey)

\* resolvers.ts updateBuilderData: update by shop, fails when there is no row
UpdateBuilderData(shop, builderData) ==
    /\ shop \in DOMAIN merchantConfig
    /\ merchantConfig' = [merchantConfig EXCEPT ![shop].builderData = builderData]
    /\ UNCHANGED <<now, tickets, nextTicket, prismaSessions, docVars, procs,
                   response, histVars>>

\* the builder saves the scene of the shop it is editing
BuilderSave == \E s \in Shops : UpdateBuilderData(s, BuilderDataOf(s))

(* ------------------------------ tickets -------------------------------- *)

\* mutant: the ticket is stored as already used
NewTicket_Used(shop) ==
    [shop |-> shop, used |-> TRUE, expiresAt |-> now + TicketTTL]

\* the data of oneTimeTicket.create
NewTicket(shop) ==
    [shop |-> shop, used |-> FALSE, expiresAt |-> now + TicketTTL]

\* api.ticket.create.tsx action: the shop is the shop of the admin session
\* the request is authenticated with; one store call
CreateTicket(shop, ok) ==
    /\ nextTicket <= MaxTickets
    /\ LET r == [Idle EXCEPT !.op = "createTicket", !.shop = shop, !.fault = ~ok,
                              !.caller = shop]
        IN IF ok
           THEN /\ tickets' = Put(tickets, nextTicket, NewTicket(shop))
                /\ nextTicket' = nextTicket + 1
                /\ response' = Reply(r, "Ticket", [NoOut EXCEPT !.id = nextTicket])
                /\ minted' = Put(minted, nextTicket, shop)
           ELSE /\ UNCHANGED <<tickets, nextTicket, minted>>
                /\ response' = Reply(r, "InternalError", NoOut)
    /\ UNCHANGED <<now, merchantConfig, prismaSessions, docVars, procs, redeemed, issued, requested>>

\* api.ticket.create.tsx action for a request that carries no admin session:
\* authenticate.admin yields no session (401) or throws into the catch
\* block (500); nothing is stored
CreateTicketNoSession(res) ==
    /\ res \in {"Unauthorized", "InternalError"}
    /\ response' = Reply([Idle EXCEPT !.op = "createTicket"], res, NoOut)
    /\ UNCHANGED <<now, prismaVars, docVars, procs, histVars>>

\* resolvers.ts createTicket, served by the yoga endpoint, which
\* authenticates nothing: shop is the argument of the mutation, caller the
\* shop of the session the HTTP request happens to carry (Null for none);
\* one store call, whose failure becomes a GraphQL error
GqlCreateTicket(caller, shop, ok) ==
    /\ nextTicket <= MaxTickets
    /\ LET r == [Idle EXCEPT !.op = "gqlCreateTicket", !.shop = shop,
                              !.fault = ~ok, !.caller = caller]
        IN IF ok
           THEN /\ tickets' = Put(tickets, nextTicket, NewTicket(shop))
                /\ nextTicket' = nextTicket + 1
                /\ response' = Reply(r, "Ticket", [NoOut EXCEPT !.id = nextTicket])
                /\ minted' = Put(minted, nextTicket, shop)
           ELSE /\ UNCHANGED <<tickets, nextTicket, minted>>
                /\ response' = Reply(r, "GraphQLError", NoOut)
    /\ UNCHANGED <<now, merchantConfig, prismaSessions, docVars, procs, redeemed, issued, requested>>

\* mutant: no ticket is ever past its expiry
Expired_Never(rec, t) == FALSE

\* ticketRecord.expiresAt < new Date()
Expired(rec, t) == rec.expiresAt < t

\* mutant: every ticket is rejected
CheckTicket_Invalid(t) == "invalid"

\* what the exchange does after findUnique returned: "invalid", "delete" or "update"
CheckTicket(t) ==
    IF t \notin DOMAIN tickets \/ tickets[t].used THEN "invalid"
    ELSE IF Expired(tickets[t], now) THEN "delete"
    ELSE "update"

\* exchange, first await: findUnique({ticket}) and the checks that follow it.
\* The REST action answers 400 to an empty ticket before it reads anything.
ExchangeFind(p, t, ok) ==
    /\ Free(p)
    /\ LET r == [Idle EXCEPT !.op = "exchange", !.id = t,
                              !.fault = (t # NoId /\ ~ok),
                              !.expired = (/\ ok /\ t \in DOMAIN tickets
                                           /\ tickets[t].expiresAt < now),
                              !.after = (t \in DOMAIN redeemed /\ redeemed[t] > 0)]
        IN IF t = NoId
           THEN /\ response' = Reply(r, "TicketRequired", NoOut)
                /\ UNCHANGED procs
           ELSE IF ~ok
           THEN /\ response' = Reply(r, "InternalError", NoOut)
                /\ UNCHANGED procs
           ELSE IF CheckTicket(t) = "invalid"
           THEN /\ response' = Reply(r, "InvalidTicket", NoOut)
                /\ UNCHANGED procs
           ELSE /\ procs' = [procs EXCEPT ![p] =
                         [r EXCEPT !.pc = CheckTicket(t), !.shop = tickets[t].shop]]
                /\ UNCHANGED response
    /\ UNCHANGED <<now, prismaVars, docVars, histVars>>

\* exchange, expired branch: delete({id}) throws when the row is gone
ExchangeDelete(p, ok) ==
    /\ procs[p].op = "exchange" /\ procs[p].pc = "delete"
    /\ LET r == procs[p]
        IN IF ~ok
           THEN /\ response' = Reply([r EXCEPT !.fault = TRUE], "InternalError", NoOut)
                /\ UNCHANGED tickets
           ELSE IF r.id \notin DOMAIN tickets
           THEN /\ response' = Reply(r, "InternalError", NoOut)
                /\ UNCHANGED tickets
           ELSE /\ tickets' = Drop(tickets, r.id)
                /\ response' = Reply(r, "TicketExpired", NoOut)
    /\ procs' = [procs EXCEPT ![p] = Idle]
    /\ UNCHANGED <<now, nextTicket, merchantConfig, prismaSessions, docVars, histVars>>

\* mutant: the update writes nothing
MarkUsed_NoWrite(t) == tickets

\* the write of the used flag: update({id}, {used: true})
MarkUsed(t) == [tickets EXCEPT ![t].used = TRUE]

\* exchange: the update throws when the row is gone
ExchangeUpdate(p, ok) ==
    /\ procs[p].op = "exchange" /\ procs[p].pc = "update"
    /\ LET r == procs[p]
        IN IF ~ok
           THEN /\ response' = Reply([r EXCEPT !.fault = TRUE], "InternalError", NoOut)
                /\ procs' = [procs EXCEPT ![p] = Idle]
                /\ UNCHANGED tickets
           ELSE IF r.id \notin DOMAIN tickets
           THEN /\ response' = Reply(r, "InternalError", NoOut)
                /\ procs' = [procs EXCEPT ![p] = Idle]
                /\ UNCHANGED tickets
           ELSE /\ tickets' = MarkUsed(r.id)
                /\ procs' = [procs EXCEPT ![p].pc = "config"]
                /\ UNCHANGED response
    /\ UNCHANGED <<now, nextTicket, merchantConfig, prismaSessions, docVars, histVars>>

\* mutant: the config row is not selected by the ticket's shop
Credentials_AnyRow(s) ==
    LET other == CHOOSE c \in DOMAIN merchantConfig :
                     c # s \/ DOMAIN merchantConfig = {s}
    IN [NoOut EXCEPT !.shop = other,
                     !.accessToken = merchantConfig[other].accessToken,
                     !.apiKey = merchantConfig[other].apiKey,
                     !.builderData = merchantConfig[other].builderData]

\* the body of a successful exchange, from the merchant config of shop s
Credentials(s) ==
    [NoOut EXCEPT !.shop = s,
                  !.accessToken = merchantConfig[s].accessToken,
                  !.apiKey = merchantConfig[s].apiKey,
                  !.builderData = merchantConfig[s].builderData]

\* mutant: the config row is never found
HasConfig_Never(shop) == FALSE

\* merchantConfig.findUnique({shop}) returns a row
HasConfig(shop) == shop \in DOMAIN merchantConfig

\* exchange, last await: merchantConfig.findUnique({shop: ticketRecord.shop})
ExchangeConfig(p, ok) ==
    /\ procs[p].op = "exchange" /\ procs[p].pc = "config"
    /\ LET r == procs[p]
        IN IF ~ok
           THEN /\ response' = Reply([r EXCEPT !.fault = TRUE], "InternalError", NoOut)
                /\ UNCHANGED redeemed
           ELSE IF ~HasConfig(r.shop)
           THEN /\ response' = Reply(r, "ConfigNotFound", NoOut)
                /\ UNCHANGED redeemed
           ELSE /\ response' = Reply(r, "Credentials", Credentials(r.shop))
                /\ redeemed' = [redeemed EXCEPT ![r.id] = @ + 1]
    /\ procs' = [procs EXCEPT ![p] = Idle]
    /\ UNCHANGED <<now, prismaVars, docVars, minted, issued, requested>>

\* resolvers.ts validateTicket, first await: findUnique({ticket}) and the
\* checks that follow it; a ticket that is stored, unused and not expired is
\* answered true and nothing is written
ValidateFind(p, t, ok) ==
    /\ Free(p)
    /\ LET r == [Idle EXCEPT !.op = "validateTicket", !.id = t, !.fault = ~ok,
                              !.expired = (/\ ok /\ t \in DOMAIN tickets
                                           /\ tickets[t].expiresAt < now),
                              !.after = (t \in DOMAIN redeemed /\ redeemed[t] > 0)]
        IN IF ~ok
           THEN /\ response' = Reply(r, "GraphQLError", NoOut)
                /\ UNCHANGED procs
           ELSE IF CheckTicket(t) = "invalid"
           THEN /\ response' = Reply(r, "NotValid", NoOut)
                /\ UNCHANGED procs
           ELSE IF CheckTicket(t) = "delete"
           THEN /\ procs' = [procs EXCEPT ![p] = [r EXCEPT !.pc = "delete"]]
                /\ UNCHANGED response
           ELSE /\ response' = Reply(r, "Valid", NoOut)
                /\ UNCHANGED procs
    /\ UNCHANGED <<now, prismaVars, docVars, histVars>>

\* validateTicket, expired branch: delete({id}), which throws when the row
\* is gone, then false
ValidateDelete(p, ok) ==
    /\ procs[p].op = "validateTicket" /\ procs[p].pc = "delete"
    /\ LET r == procs[p]
        IN IF ~ok
           THEN /\ response' = Reply([r EXCEPT !.fault = TRUE], "GraphQLError", NoOut)
                /\ UNCHANGED tickets
           ELSE IF r.id \notin DOMAIN tickets
           THEN /\ response' = Reply(r, "GraphQLError", NoOut)
                /\ UNCHANGED tickets
           ELSE /\ tickets' = Drop(tickets, r.id)
                /\ response' = Reply(r, "NotValid", NoOut)
    /\ procs' = [procs EXCEPT ![p] = Idle]
    /\ UNCHANGED <<now, nextTicket, merchantConfig, prismaSessions, docVars, histVars>>

(* ----------------------- document store: sessions ----------------------- *)

\* the user of the online sessions, and their session id (shop_userId)
UserId == "user1"

OnlineId(s) == s \o "_" \o UserId

Scope == "read_products"

\* the onlineAccessInfo of an online token of shop s
OnlineAccessInfo(s) ==
    [id |-> UserId, email |-> EmailOf(s), account_owner |-> TRUE,
     associated_user_scope |-> Scope, expires_in |-> 86399]

\* the offline session the OAuth handshake of shop s produces
OfflineSession(s) ==
    [id |-> OfflineId(s), shop |-> s, state |-> "state", isOnline |-> FALSE,
     scope |-> Scope, accessToken |-> AccessTokenOf(s), onlineAccessInfo |-> NoInfo]

\* the session objects of shop s the platform library may hand to the
\* storage: offline and online, scope and accessToken absent, empty or set,
\* an online one before and after its user is known
SessionsOf(s) ==
    {x \in [id : {OfflineId(s), OnlineId(s)}, shop : {s}, state : {"state"},
            isOnline : BOOLEAN, scope : {Null, "", Scope},
            accessToken : {Null, "", AccessTokenOf(s)},
            onlineAccessInfo : {NoInfo, OnlineAccessInfo(s)}] :
        /\ x.id = IF x.isOnline THEN OnlineId(s) ELSE OfflineId(s)
        /\ ~x.isOnline => x.onlineAccessInfo = NoInfo}

SessionIds == {OfflineId(s) : s \in Shops} \cup {OnlineId(s) : s \in Shops}

\* mutant: only null and undefined are falsy
Truthy_NotNull(v) == v # Null

\* the test if (v) on a string field: null, undefined and "" are falsy
Truthy(v) == v \notin {Null, ""}

\* v ?? d
OrElse(v, d) == IF v = Null THEN d ELSE v

\* a boolean as the document stores it
JsonBool(b) == IF b THEN "true" ELSE "false"

\* api-client storeSession, the data it writes: the user fields come from
\* onlineAccessInfo?.associated_user with ?? null, the boolean ones with
\* ?? false, accessToken with ?? ""
SessionToDoc(session) ==
    LET info == session.onlineAccessInfo
    IN [key |-> session.id, shop |-> session.shop, state |-> session.state,
        isOnline |-> session.isOnline,
        scope |-> OrElse(session.scope, Null),
        accessToken |-> OrElse(session.accessToken, ""),
        userId |-> OrElse(info.id, Null),
        email |-> OrElse(info.email, Null),
        accountOwner |-> IF info = NoInfo THEN JsonBool(FALSE)
                         ELSE JsonBool(info.account_owner)]

\* api-client docToSession: scope and accessToken are set when truthy,
\* onlineAccessInfo is rebuilt when userId != null
DocToSession(doc) ==
    [id |-> doc.key, shop |-> doc.shop, state |-> doc.state,
     isOnline |-> doc.isOnline,
     scope |-> IF Truthy(doc.scope) THEN doc.scope ELSE Null,
     accessToken |-> IF Truthy(doc.accessToken) THEN doc.accessToken ELSE Null,
     onlineAccessInfo |->
        IF doc.userId # Null
        THEN [id |-> doc.userId, email |-> OrElse(doc.email, ""),
              account_owner |-> (doc.accountOwner = "true"),
              associated_user_scope |-> OrElse(doc.scope, ""),
              expires_in |-> 0]
        ELSE NoInfo]

\* api-client storeSession (session-storage.server.ts): upsert by session
\* id of the offline session of the OAuth handshake
StoreSession(shop) ==
    /\ sessionDocs' = Put(sessionDocs, OfflineId(shop),
                          SessionToDoc(OfflineSession(shop)))
    /\ UNCHANGED <<now, prismaVars, ecomData, nextKey, storeData, storePlan,
                   procs, response, histVars>>

\* MongoDBSessionStorage.storeSession: true when the write was accepted,
\* false when it failed (the catch returns false)
StoreSessionOf(session, ok) ==
    /\ sessionDocs' = IF ok THEN Put(sessionDocs, session.id, SessionToDoc(session))
                      ELSE sessionDocs
    /\ response' = Reply([Idle EXCEPT !.op = "storeSession", !.shop = session.shop,
                                      !.session = session, !.fault = ~ok],
                         IF ok THEN "True" ELSE "False", NoOut)
    /\ UNCHANGED <<now, prismaVars, ecomData, nextKey, storeData, storePlan,
                   procs, histVars>>

\* MongoDBSessionStorage.loadSession: docToSession of the document with
\* that key, undefined when there is none or when the query fails
LoadSession(id, ok) ==
    /\ LET found == ok /\ id \in DOMAIN sessionDocs
           r == [Idle EXCEPT !.op = "loadSession", !.param = id, !.fault = ~ok,
                             !.session = IF found THEN DocToSession(sessionDocs[id])
                                         ELSE NoSession]
       IN response' = Reply(r, IF found THEN "Session" ELSE "Undefined", NoOut)
    /\ UNCHANGED <<now, prismaVars, docVars, procs, histVars>>

\* api-client deleteSession: true when the delete was accepted; the catch
\* block returns false, so the promise never rejects
DeleteSession(id, ok) == ok

\* api-client deleteSessions: await Promise.all(ids.map(deleteSession)) and
\* return true; false only when one of the promises rejects
DeleteSessionsResult(ids, failed) ==
    LET results == [id \in ids |-> DeleteSession(id, id \notin failed)]
        rejected == \E id \in ids : results[id] \notin BOOLEAN
    IN ~rejected

\* MongoDBSessionStorage.deleteSessions(ids); failed are the ids whose
\* delete the document store refuses
DeleteSessions(ids, failed) ==
    /\ failed \subseteq ids
    /\ sessionDocs' = [id \in DOMAIN sessionDocs \ (ids \ failed) |-> sessionDocs[id]]
    /\ response' = Reply([Idle EXCEPT !.op = "deleteSessions", !.calls = ids,
                                      !.fault = (failed # {})],
                         IF DeleteSessionsResult(ids, failed) THEN "True" ELSE "False",
                         NoOut)
    /\ UNCHANGED <<now, prismaVars, ecomData, nextKey, storeData, storePlan,
                   procs, histVars>>

\* the offline session of shop s after its access token was replaced
RefreshedSession(s) ==
    [OfflineSession(s) EXCEPT !.accessToken = "shpat2:" \o s]

\* the values of payload.current of a scopes_update webhook: arrays of
\* scope names
CurrentScopes ==
    {<<>>, <<"read_products">>, <<"read_products", "write_products">>}

\* Array.prototype.toString: the elements joined with a comma
RECURSIVE ArrayToString(_)
ArrayToString(a) ==
    IF a = <<>> THEN ""
    ELSE IF Len(a) = 1 THEN a[1]
    ELSE a[1] \o "," \o ArrayToString(Tail(a))

\* the webhook is answered with an empty 200 response
ScopesAck(p, r) ==
    /\ response' = Reply(r, "Ack", NoOut)
    /\ procs' = [procs EXCEPT ![p] = Idle]

\* webhooks.app.scopes_update.tsx, first await: authenticate.webhook hands
\* over the payload and the offline session of the shop, or no session
\* when none is stored; without session the handler only acknowledges
ScopesAuth(p, shop, current, ok) ==
    /\ Free(p)
    /\ LET id == OfflineId(shop)
           found == ok /\ id \in DOMAIN sessionDocs
           r == [Idle EXCEPT !.op = "scopes", !.shop = shop, !.param = id,
                             !.plan = ArrayToString(current), !.fault = ~ok]
       IN IF found
          THEN /\ procs' = [procs EXCEPT ![p] = [r EXCEPT !.pc = "load"]]
               /\ UNCHANGED response
          ELSE ScopesAck(p, r)
    /\ UNCHANGED <<now, prismaVars, docVars, histVars>>

\* scopes_update, second await: stored = loadSession(session.id), and
\* stored.scope = current.toString() when there is one
ScopesLoad(p, ok) ==
    /\ procs[p].op = "scopes" /\ procs[p].pc = "load"
    /\ LET id == procs[p].param
           found == ok /\ id \in DOMAIN sessionDocs
           r == [procs[p] EXCEPT !.fault = @ \/ ~ok,
                                 !.calls = @ \cup {"loadSession"}]
       IN IF found
          THEN /\ procs' = [procs EXCEPT ![p] =
                       [r EXCEPT !.pc = "store",
                                 !.session = [DocToSession(sessionDocs[id])
                                                 EXCEPT !.scope = r.plan]]]
               /\ UNCHANGED response
          ELSE ScopesAck(p, r)
    /\ UNCHANGED <<now, prismaVars, docVars, histVars>>

\* scopes_update, third await: storeSession(stored); its result is ignored
ScopesStore(p, ok) ==
    /\ procs[p].op = "scopes" /\ procs[p].pc = "store"
    /\ sessionDocs' = IF ok THEN Put(sessionDocs, procs[p].session.id,
                                     SessionToDoc(procs[p].session))
                      ELSE sessionDocs
    /\ ScopesAck(p, [procs[p] EXCEPT !.fault = @ \/ ~ok,
                                     !.calls = @ \cup {"storeSession"}])
    /\ UNCHANGED <<now, prismaVars, ecomData, nextKey, storeData, storePlan,
                   histVars>>

\* api-client findSessionsByShop: the ids of the session documents of a shop
FindSessionsByShop(shop) ==
    {id \in DOMAIN sessionDocs : sessionDocs[id].shop = shop}

(* ----------------------- document store: projects ----------------------- *)

\* the builder creates the project of a shop: a StoreData document with
\* ecomUrl = shop in the shop's own database
ProvisionProject(shop) ==
    /\ shop \notin storeData
    /\ storeData' = storeData \cup {shop}
    /\ UNCHANGED <<now, prismaVars, ecomData, nextKey, sessionDocs, storePlan,
                   procs, response, histVars>>

\* mutant: the lookup finds no project
FindStoreByShopUrl_NotFound(shop, ok) == Null

\* api-client findStoreByShopUrl: dbName of the project, Null when none is
\* found or when the query fails (the catch returns null)
FindStoreByShopUrl(shop, ok) ==
    IF ok /\ shop \in storeData THEN DbNameOf(shop) ELSE Null

\* mutant: the metadata document is not read
GetStorePlan_Default(dbName, ok) == "freemium"

\* api-client getStorePlan: paymentPlan of StoreData.metadata, "freemium"
\* when absent or when the query fails
GetStorePlan(dbName, ok) ==
    IF ok /\ dbName \in DOMAIN storePlan THEN storePlan[dbName] ELSE "freemium"

(* ------------------------------ configure ------------------------------ *)

\* mutant: the document is written under a populated key
CreateEComData_FixedKey(doc) == Put(ecomData, 1, doc)

\* api-client createEComData: writeDocumentByKey with key "" - the store
\* generates the key of the new document
CreateEComData(doc) == Put(ecomData, nextKey, doc)

\* mutant: only a missing email is refused
Blank_OnlyMissing(email) == email = Null

\* !email: the body has no email, or an empty one
Blank(email) == email \in {Null, ""}

\* api.merchant.configure.tsx, first await after authentication:
\* findStoreByShopUrl(session.shop), then the branch on storeRecord and email
ConfigureFind(p, shop, email, ok) ==
    /\ Free(p)
    /\ nextKey <= MaxKeys
    /\ LET dbName == FindStoreByShopUrl(shop, ok)
            r == [Idle EXCEPT !.op = "configure", !.shop = shop, !.email = email,
                              !.dbName = dbName, !.fault = ~ok,
                              !.proj = (shop \in storeData),
                              !.after = (\E q \in Procs :
                                            /\ procs[q].op = "configure"
                                            /\ procs[q].shop = shop),
                              !.calls = {"findStoreByShopUrl"}]
        IN IF dbName # Null
           THEN /\ procs' = [procs EXCEPT ![p] = [r EXCEPT !.pc = "createEdit"]]
                /\ UNCHANGED response
           ELSE IF Blank(email)
           THEN /\ response' = Reply(r, "EmailRequired", NoOut)
                /\ UNCHANGED procs
           ELSE /\ procs' = [procs EXCEPT ![p] = [r EXCEPT !.pc = "createNew"]]
                /\ UNCHANGED response
    /\ UNCHANGED <<now, prismaVars, docVars, histVars>>

\* mutant: the edit document also carries the credentials
EditDoc_Credentials(shop, dbName) ==
    [NoDoc EXCEPT !.command = "shopify_edit", !.shop = shop, !.dbName = dbName,
                  !.accessToken = AccessTokenOf(shop), !.apiKey = ApiKey]

\* the document of the "edit" branch: only shop and dbName
EditDoc(shop, dbName) ==
    [NoDoc EXCEPT !.command = "shopify_edit", !.shop = shop, !.dbName = dbName]

\* mutant: the email of the body is not stored
CreateDoc_NoEmail(shop, email, paymentMode) ==
    [NoDoc EXCEPT !.command = "shopify-create", !.shop = shop,
                  !.accessToken = AccessTokenOf(shop), !.apiKey = ApiKey,
                  !.paymentMode = paymentMode]

\* the document of the "create" branch
CreateDoc(shop, email, paymentMode) ==
    [NoDoc EXCEPT !.command = "shopify-create", !.shop = shop,
                  !.accessToken = AccessTokenOf(shop), !.apiKey = ApiKey,
                  !.email = email, !.paymentMode = paymentMode]

\* billing.check: the name of the first active subscription, "none" without one
Subscriptions == {"none", "basic", "premium", "other"}

\* paymentMode from billing.check; a failed check leaves "freemium"
PaymentMode(sub, ok) ==
    IF ok /\ sub = "basic" THEN "basic"
    ELSE IF ok /\ sub = "premium" THEN "premium"
    ELSE "freemium"

\* mutant: the store generates the same key again
NewKey_Same(k) == k

\* createEComData writes with an empty key, and the store generates a key
\* no document has; NewKey is the next key it will generate
NewKey(k) == k + 1

\* createEComData succeeded with key nextKey: respond {accessKey, isNew}
ConfigureWrite(p, doc, isNew) ==
    /\ nextKey <= MaxKeys
    /\ ecomData' = CreateEComData(doc)
    /\ nextKey' = NewKey(nextKey)
    /\ response' = Reply(procs[p], "AccessKey",
                         [NoOut EXCEPT !.id = nextKey, !.isNew = isNew])
    /\ issued' = Put(issued, nextKey,
                     [shop |-> procs[p].shop, email |-> procs[p].email,
                      proj |-> procs[p].proj, isNew |-> isNew, doc |-> doc])

ConfigureFail(p) ==
    /\ response' = Reply([procs[p] EXCEPT !.fault = TRUE], "InternalError", NoOut)
    /\ UNCHANGED <<ecomData, nextKey, issued>>

\* configure, existing project: createEComData(shopify_edit)
ConfigureEdit(p, ok) ==
    /\ procs[p].op = "configure" /\ procs[p].pc = "createEdit"
    /\ IF ok
        THEN ConfigureWrite(p, EditDoc(procs[p].shop, procs[p].dbName), FALSE)
        ELSE ConfigureFail(p)
    /\ procs' = [procs EXCEPT ![p] = Idle]
    /\ UNCHANGED <<now, prismaVars, sessionDocs, storeData, storePlan, minted, redeemed, requested>>

\* configure, new store: billing.check (its answer does not depend on any
\* state of this system), then createEComData(shopify-create)
ConfigureCreate(p, ok, sub, billingOk) ==
    /\ procs[p].op = "configure" /\ procs[p].pc = "createNew"
    /\ IF ok
        THEN ConfigureWrite(p, CreateDoc(procs[p].shop, procs[p].email,
                                         PaymentMode(sub, billingOk)), TRUE)
        ELSE ConfigureFail(p)
    /\ procs' = [procs EXCEPT ![p] = Idle]
    /\ UNCHANGED <<now, prismaVars, sessionDocs, storeData, storePlan, minted, redeemed, requested>>

(* ------------------------------ get-config ----------------------------- *)

\* mutant: the query carries no key filter and the first document is taken
FindEComDataByKey_NoFilter(key, ok) ==
    IF ok /\ DOMAIN ecomData # {}
    THEN ecomData[CHOOSE k \in DOMAIN ecomData : \A j \in DOMAIN ecomData : k <= j]
    ELSE NoDoc

\* api-client findEComDataByKey: the document with that key, NoDoc when none
\* matches or when the query fails (the catch returns null)
FindEComDataByKey(key, ok) ==
    IF ok /\ key \in DOMAIN ecomData THEN ecomData[key] ELSE NoDoc

\* the body of a successful get-config
ConfigBody(doc, dbName, plan) ==
    [NoOut EXCEPT !.shop = doc.shop, !.dbName = dbName,
                  !.accessToken = doc.accessToken, !.apiKey = doc.apiKey,
                  !.email = doc.email,
                  !.paymentMode = IF doc.paymentMode = Null THEN "freemium"
                                  ELSE doc.paymentMode,
                  !.plan = plan,
                  !.isNew = (doc.command = "shopify-create")]

\* a console entry the get-config handler writes: its level, and whether
\* the text carries clientIP (x-forwarded-for, or "unknown")
LogEntry(level, ip) == [level |-> level, ip |-> ip]

\* api.merchant.get-config.tsx, first await: findEComDataByKey(key).
\* A request without key is answered 400 before anything is read, and one
\* whose body cannot be parsed is answered 500 by the catch block. The
\* handler writes console.warn with the IP for an unknown key, console.log
\* with the IP for a matched one, console.error without it in the catch
\* block, and nothing for a missing key.
GetConfigFind(p, key, ok) ==
    /\ Free(p)
    /\ LET doc == FindEComDataByKey(key, ok)
            r == [Idle EXCEPT !.op = "getConfig", !.id = key, !.doc = doc,
                              !.shop = doc.shop, !.dbName = doc.dbName,
                              !.fault = ~ok, !.calls = {"findEComDataByKey"},
                              !.log = {IF doc = NoDoc THEN LogEntry("warn", TRUE)
                                       ELSE LogEntry("log", TRUE)}]
        IN IF key = NoBody
           THEN /\ response' = Reply([Idle EXCEPT !.op = "getConfig", !.id = NoBody,
                                                  !.log = {LogEntry("error", FALSE)}],
                                     "InternalError", NoOut)
                /\ UNCHANGED procs
           ELSE IF key = NoId
           THEN /\ response' = Reply([Idle EXCEPT !.op = "getConfig"],
                                     "KeyRequired", NoOut)
                /\ UNCHANGED procs
           ELSE IF doc = NoDoc
           THEN /\ response' = Reply(r, "InvalidKey", NoOut)
                /\ UNCHANGED procs
           ELSE /\ procs' = [procs EXCEPT ![p] =
                        [r EXCEPT !.pc = IF doc.dbName # Null THEN "plan"
                                         ELSE "findStore"]]
                /\ UNCHANGED response
    /\ UNCHANGED <<now, prismaVars, docVars, histVars>>

\* get-config, record without dbName: findStoreByShopUrl(config.data.shop)
GetConfigStore(p, ok) ==
    /\ procs[p].op = "getConfig" /\ procs[p].pc = "findStore"
    /\ LET dbName == FindStoreByShopUrl(procs[p].shop, ok)
            r == [procs[p] EXCEPT !.dbName = dbName,
                                  !.fault = @ \/ ~ok,
                                  !.calls = @ \cup {"findStoreByShopUrl"}]
        IN IF dbName # Null
           THEN /\ procs' = [procs EXCEPT ![p] = [r EXCEPT !.pc = "plan"]]
                /\ UNCHANGED response
           ELSE /\ response' = Reply(r, "Config", ConfigBody(r.doc, Null, "freemium"))
                /\ procs' = [procs EXCEPT ![p] = Idle]
    /\ UNCHANGED <<now, prismaVars, docVars, histVars>>

\* mutant: the plan that was read is written back to the metadata document
GetConfigPlan_WriteBack(p, ok) ==
    /\ procs[p].op = "getConfig" /\ procs[p].pc = "plan"
    /\ LET r == [procs[p] EXCEPT !.fault = @ \/ ~ok,
                                  !.calls = @ \cup {"getStorePlan"}]
        IN /\ response' = Reply(r, "Config",
                                ConfigBody(r.doc, r.dbName, GetStorePlan(r.dbName, ok)))
           /\ storePlan' = Put(storePlan, r.dbName, GetStorePlan(r.dbName, ok))
    /\ procs' = [procs EXCEPT ![p] = Idle]
    /\ UNCHANGED <<now, prismaVars, ecomData, nextKey, sessionDocs, storeData,
                   histVars>>

\* get-config, dbName known: getStorePlan(dbName), then the response
GetConfigPlan(p, ok) ==
    /\ procs[p].op = "getConfig" /\ procs[p].pc = "plan"
    /\ LET r == [procs[p] EXCEPT !.fault = @ \/ ~ok,
                                  !.calls = @ \cup {"getStorePlan"}]
        IN response' = Reply(r, "Config",
                             ConfigBody(r.doc, r.dbName, GetStorePlan(r.dbName, ok)))
    /\ procs' = [procs EXCEPT ![p] = Idle]
    /\ UNCHANGED <<now, prismaVars, docVars, histVars>>

(* ------------------------- deleteEComDataByShop ------------------------- *)

\* api-client findEComDataByShop: the keys of the documents with data.shop =
\* shop; the function returns docs[0] of them, in the order the store answers
FindEComDataByShop(shop, ok) ==
    IF ok THEN {k \in DOMAIN ecomData : ecomData[k].shop = shop} ELSE {}

\* api-client deleteEComDataByShop, first await: existing = findEComDataByShop
PurgeFind(p, shop, ok) ==
    /\ Free(p)
    /\ LET r == [Idle EXCEPT !.op = "purge", !.shop = shop, !.fault = ~ok,
                             !.calls = {"findEComDataByShop"}]
           docs == FindEComDataByShop(shop, ok)
       IN IF docs = {}
          THEN /\ response' = Reply(r, "Purged", NoOut)
               /\ UNCHANGED procs
          ELSE /\ \E k \in docs :
                     procs' = [procs EXCEPT ![p] = [r EXCEPT !.pc = "delete", !.id = k]]
               /\ UNCHANGED response
    /\ UNCHANGED <<now, prismaVars, docVars, histVars>>

\* deleteEComDataByShop, second await: writeDocumentByKey {delete: true} of
\* existing.key; a failed request rejects the call
PurgeDelete(p, ok) ==
    /\ procs[p].op = "purge" /\ procs[p].pc = "delete"
    /\ IF ok
       THEN /\ ecomData' = Drop(ecomData, procs[p].id)
            /\ response' = Reply(procs[p], "Purged", NoOut)
       ELSE /\ UNCHANGED ecomData
            /\ response' = Reply([procs[p] EXCEPT !.fault = TRUE], "Rejected", NoOut)
    /\ procs' = [procs EXCEPT ![p] = Idle]
    /\ UNCHANGED <<now, prismaVars, nextKey, sessionDocs, storeData, storePlan, histVars>>

(* --------------------------- billing callback --------------------------- *)

\* the plan identifiers of the app
Plans == {"freemium", "basic", "premium"}

\* the values of the plan parameter of a callback URL: none, the names of
\* the two plans (BASIC_PLAN, PREMIUM_PLAN), some other name, and two names
\* of members every JavaScript object inherits
PlanParams == {Null, "basic", "premium", "other", "__proto__", "constructor"}

\* Object.prototype, the value of obj["__proto__"]
ObjectPrototype == "[object Object]"

\* the function Object, the value of obj["constructor"]
ObjectFunction == "[Function: Object]"

\* mutant: the plan parameter is not looked at
PlanFromParam_Ignored(param) == Null

\* planParam ? SHOPIFY_PLAN_TO_INTERNAL[decodeURIComponent(planParam)] :
\* undefined. The table is an object literal with the two plan names as
\* keys; a property read on it also finds what it inherits from
\* Object.prototype, and any other name reads undefined.
PlanFromParam(param) ==
    CASE param = Null -> Null
      [] param = "basic" -> "basic"
      [] param = "premium" -> "premium"
      [] param = "__proto__" -> ObjectPrototype
      [] param = "constructor" -> ObjectFunction
      [] OTHER -> Null

\* the plan of the first active subscription the platform reports
BillingStatusPlan(sub) ==
    IF sub = "none" THEN "freemium"
    ELSE IF sub = "basic" THEN "basic"
    ELSE IF sub = "premium" THEN "premium"
    ELSE "freemium"

\* gqlRequest: JSON.stringify({query, variables}) - a string stays what it
\* is, a function-valued property is left out (Null), and Object.prototype,
\* which has no enumerable property of its own, becomes {}
JsonValue(v) ==
    CASE v = ObjectFunction -> Null
      [] v = ObjectPrototype -> "{}"
      [] OTHER -> v

\* mutant: the plan is not written
UpdateStorePlan_Dropped(dbName, paymentPlan, ok) == storePlan

\* api-client updateStorePlan: writeDocumentByKey of {key: "metadata",
\* paymentPlan}, merged into the document; a failed request is only logged
UpdateStorePlan(dbName, paymentPlan, ok) ==
    IF ok /\ JsonValue(paymentPlan) # Null
    THEN Put(storePlan, dbName, JsonValue(paymentPlan))
    ELSE storePlan

\* mutant: the callback ends on the login page
BillingDone_Login(p, r) ==
    /\ response' = Reply(r, "LoginRedirect", NoOut)
    /\ procs' = [procs EXCEPT ![p] = Idle]

\* the callback is done: redirect into the embedded app
BillingDone(p, r) ==
    /\ response' = Reply(r, "AppRedirect", NoOut)
    /\ procs' = [procs EXCEPT ![p] = Idle]

\* billing callback loader, up to its first await: the shop and plan
\* parameters of the URL. Without shop it redirects to the login page.
BillingStart(p, shop, param) ==
    /\ Free(p)
    /\ LET r == [Idle EXCEPT !.op = "billing", !.shop = shop, !.param = param,
                             !.plan = PlanFromParam(param)]
       IN IF shop = Null
          THEN /\ response' = Reply([r EXCEPT !.plan = Null], "LoginRedirect", NoOut)
               /\ UNCHANGED procs
          ELSE /\ procs' = [procs EXCEPT ![p] =
                       [r EXCEPT !.pc = IF r.plan # Null THEN "findStore"
                                        ELSE "query"]]
               /\ UNCHANGED response
    /\ UNCHANGED <<now, prismaVars, docVars, histVars>>

\* no plan from the parameter: unauthenticated.admin(shop) and the query of
\* currentAppInstallation.activeSubscriptions; sub is the name of the first
\* one. When the shop has no offline session or the platform fails, the
\* catch block logs and resolvedPlan stays undefined.
BillingQuery(p, sub, ok) ==
    /\ procs[p].op = "billing" /\ procs[p].pc = "query"
    /\ LET r == [procs[p] EXCEPT !.calls = @ \cup {"activeSubscriptions"},
                                 !.fault = ~ok]
       IN IF ok
          THEN /\ procs' = [procs EXCEPT ![p] =
                       [r EXCEPT !.plan = BillingStatusPlan(sub), !.pc = "findStore"]]
               /\ UNCHANGED response
          ELSE BillingDone(p, r)
    /\ UNCHANGED <<now, prismaVars, docVars, histVars>>

\* a plan is resolved: storeRecord = findStoreByShopUrl(shop)
BillingFind(p, ok) ==
    /\ procs[p].op = "billing" /\ procs[p].pc = "findStore"
    /\ LET dbName == FindStoreByShopUrl(procs[p].shop, ok)
           r == [procs[p] EXCEPT !.dbName = dbName, !.fault = @ \/ ~ok,
                                 !.proj = (procs[p].shop \in storeData),
                                 !.calls = @ \cup {"findStoreByShopUrl"}]
       IN IF dbName # Null
          THEN /\ procs' = [procs EXCEPT ![p] = [r EXCEPT !.pc = "write"]]
               /\ UNCHANGED response
          ELSE BillingDone(p, r)
    /\ UNCHANGED <<now, prismaVars, docVars, histVars>>

\* a project exists: updateStorePlan(storeRecord.dbName, resolvedPlan)
BillingWrite(p, ok) ==
    /\ procs[p].op = "billing" /\ procs[p].pc = "write"
    /\ storePlan' = UpdateStorePlan(procs[p].dbName, procs[p].plan, ok)
    /\ BillingDone(p, [procs[p] EXCEPT !.fault = @ \/ ~ok])
    /\ UNCHANGED <<now, prismaVars, ecomData, nextKey, sessionDocs, storeData,
                   histVars>>

(* --------------------------- billing request --------------------------- *)

\* the values of plan in the body of a billing request: no plan property,
\* the empty string, the three plan identifiers, and two names of members
\* every JavaScript object inherits
RequestPlans == {Null, "", "freemium", "basic", "premium", "__proto__", "constructor"}

\* what billing.request can do: throw the Response that carries the
\* confirmation URL, throw another Response, or throw a BillingError
BillingOutcomes == {"url", "response", "error"}

\* PLAN_MAP[plan]: an object literal with the keys basic and premium, whose
\* values are the plan names BASIC_PLAN and PREMIUM_PLAN; a property read
\* on it also finds what it inherits from Object.prototype
PlanMap(plan) ==
    CASE plan = "basic" -> "basic"
      [] plan = "premium" -> "premium"
      [] plan = "__proto__" -> ObjectPrototype
      [] plan = "constructor" -> ObjectFunction
      [] OTHER -> Null

\* encodeURIComponent of the string of v: letters stay, brackets, colon and
\* space are percent-encoded
EncodeURIComponent(v) ==
    CASE v = ObjectPrototype -> "%5Bobject%20Object%5D"
      [] v = ObjectFunction -> "%5BFunction%3A%20Object%5D"
      [] OTHER -> v

\* url.searchParams.get: the value of the parameter, percent-decoded
SearchParamsGet(raw) ==
    CASE raw = "%5Bobject%20Object%5D" -> ObjectPrototype
      [] raw = "%5BFunction%3A%20Object%5D" -> ObjectFunction
      [] OTHER -> raw

\* api.billing.request.tsx action, called with the admin session of shop.
\* json tells whether the body parses; plan is body.plan. The handler reads
\* and writes no store: it validates the plan, builds the returnUrl, whose
\* plan parameter the response keeps in plan, and calls billing.request.
BillingRequest(p, shop, json, plan, outcome) ==
    /\ Free(p)
    /\ LET shopifyPlanName == PlanMap(OrElse(plan, ""))
           r == [Idle EXCEPT !.op = "billingRequest", !.shop = shop,
                             !.param = IF json THEN plan ELSE Null]
           s == [r EXCEPT !.plan = EncodeURIComponent(shopifyPlanName),
                          !.calls = {"billing.request"},
                          !.fault = (outcome # "url")]
       IN IF ~json
          THEN /\ response' = Reply(r, "InvalidBody", NoOut)
               /\ UNCHANGED requested
          ELSE IF shopifyPlanName = Null
          THEN /\ response' = Reply(r, "InvalidPlan", NoOut)
               /\ UNCHANGED requested
          ELSE IF outcome = "url"
          THEN /\ response' = Reply(s, "ConfirmationUrl", NoOut)
               /\ requested' = requested \cup {<<shop, shopifyPlanName>>}
          ELSE IF outcome = "response"
          THEN /\ response' = Reply(s, "Rethrown", NoOut)
               /\ UNCHANGED requested
          ELSE /\ response' = Reply(s, "BillingFailed", NoOut)
               /\ UNCHANGED requested
    /\ UNCHANGED <<now, prismaVars, docVars, procs, minted, redeemed, issued>>

(* ------------------------------ dashboard ------------------------------ *)

\* mutant: the plan is always taken from the billing check
PlanSource_Billing(storeRecord) == "billing"

\* app._index.tsx loader, the branch on storeRecord: the persisted plan of an
\* existing project, the billing check otherwise
PlanSource(storeRecord) == IF storeRecord # Null THEN "plan" ELSE "billing"

\* the loader returns shop, currentPlan, storeDbName and the access key of
\* the merchant's record
DashboardDone(p, r) ==
    /\ response' = Reply(r, "Dashboard",
                         [NoOut EXCEPT !.shop = r.shop, !.plan = r.plan,
                                       !.dbName = r.dbName, !.id = r.id])
    /\ procs' = [procs EXCEPT ![p] = Idle]

\* app._index.tsx loader, authenticated for shop, first await: Promise.all
\* of findEComDataByShop(shop) (key is the record the store lists first, or
\* NoId) and findStoreByShopUrl(shop)
DashboardFind(p, shop, key, okData, ok) ==
    /\ Free(p)
    /\ key \in (IF FindEComDataByShop(shop, okData) = {} THEN {NoId}
                ELSE FindEComDataByShop(shop, okData))
    /\ LET dbName == FindStoreByShopUrl(shop, ok)
            r == [Idle EXCEPT !.op = "dashboard", !.shop = shop, !.caller = shop,
                              !.id = key, !.dbName = dbName, !.fault = ~(ok /\ okData),
                              !.proj = (shop \in storeData),
                              !.calls = {"findEComDataByShop", "findStoreByShopUrl"}]
        IN procs' = [procs EXCEPT ![p] = [r EXCEPT !.pc = PlanSource(dbName)]]
    /\ UNCHANGED <<now, prismaVars, docVars, response, histVars>>

\* the project exists: currentPlan = getStorePlan(storeRecord.dbName)
DashboardPlan(p, ok) ==
    /\ procs[p].op = "dashboard" /\ procs[p].pc = "plan"
    /\ DashboardDone(p, [procs[p] EXCEPT !.plan = GetStorePlan(procs[p].dbName, ok),
                                         !.fault = @ \/ ~ok,
                                         !.calls = @ \cup {"getStorePlan"}])
    /\ UNCHANGED <<now, prismaVars, docVars, histVars>>

\* no project: billing.check of the two paid plans; sub is the name of the
\* first active subscription, "none" without active payment. A check that
\* throws leaves currentPlan at "freemium".
DashboardBilling(p, sub, ok) ==
    /\ procs[p].op = "dashboard" /\ procs[p].pc = "billing"
    /\ DashboardDone(p, [procs[p] EXCEPT !.plan = PaymentMode(sub, ok),
                                         !.param = sub,
                                         !.fault = @ \/ ~ok,
                                         !.calls = @ \cup {"billing.check"}])
    /\ UNCHANGED <<now, prismaVars, docVars, histVars>>

(* ------------------------------ uninstall ------------------------------ *)

\* mutant: a failed cleanup is answered 500
UninstallAck_Propagate(p, r, failed) ==
    /\ response' = Reply([r EXCEPT !.fault = failed],
                         IF failed THEN "InternalError" ELSE "Ack", NoOut)
    /\ procs' = [procs EXCEPT ![p] = Idle]

\* the catch block logs, and the handler acknowledges whatever happened
UninstallAck(p, r, failed) ==
    /\ response' = Reply([r EXCEPT !.fault = failed], "Ack", NoOut)
    /\ procs' = [procs EXCEPT ![p] = Idle]

\* webhooks.app.uninstalled.tsx: authenticate.webhook loads the offline
\* session of the shop from the configured session storage
\* (session-storage.server.ts), and only with a session the handler runs
\* prisma.session.deleteMany({where: {shop}})
UninstallSessions(p, shop, ok) ==
    /\ Free(p)
    /\ LET r == [Idle EXCEPT !.op = "uninstall", !.shop = shop,
                             !.after = (/\ response.op = "uninstall"
                                        /\ response.shop = shop
                                        /\ ~response.fault)]
       IN IF OfflineId(shop) \notin DOMAIN sessionDocs
          THEN /\ procs' = [procs EXCEPT ![p] = [r EXCEPT !.pc = "delConfig"]]
               /\ UNCHANGED <<prismaSessions, response>>
          ELSE IF ok
          THEN /\ prismaSessions' = prismaSessions \ {shop}
               /\ procs' = [procs EXCEPT ![p] = [r EXCEPT !.pc = "delConfig"]]
               /\ UNCHANGED response
          ELSE /\ UNCHANGED prismaSessions
               /\ UninstallAck(p, r, TRUE)
    /\ UNCHANGED <<now, tickets, nextTicket, merchantConfig, docVars, histVars>>

\* prisma.merchantConfig.deleteMany({where: {shop}}); the request keeps in
\* calls which of the two later deletes it has reached
UninstallConfig(p, ok) ==
    /\ procs[p].op = "uninstall" /\ procs[p].pc = "delConfig"
    /\ LET r == [procs[p] EXCEPT !.calls = @ \cup {"merchantConfig.deleteMany"}]
       IN IF ok
          THEN /\ merchantConfig' = Drop(merchantConfig, procs[p].shop)
               /\ procs' = [procs EXCEPT ![p] = [r EXCEPT !.pc = "delTickets"]]
               /\ UNCHANGED response
          ELSE /\ UNCHANGED merchantConfig
               /\ UninstallAck(p, r, TRUE)
    /\ UNCHANGED <<now, tickets, nextTicket, prismaSessions, docVars, histVars>>

\* mutant: the deleteMany has no where clause
DeleteTicketsOf_All(shop) == [t \in {} |-> tickets[t]]

\* the tickets left by oneTimeTicket.deleteMany({where: {shop}})
DeleteTicketsOf(shop) ==
    [t \in {x \in DOMAIN tickets : tickets[x].shop # shop} |-> tickets[t]]

\* prisma.oneTimeTicket.deleteMany({where: {shop}})
UninstallTickets(p, ok) ==
    /\ procs[p].op = "uninstall" /\ procs[p].pc = "delTickets"
    /\ LET r == [procs[p] EXCEPT !.calls = @ \cup {"oneTimeTicket.deleteMany"}]
       IN IF ok
          THEN /\ tickets' = DeleteTicketsOf(procs[p].shop)
               /\ UninstallAck(p, r, FALSE)
          ELSE /\ UNCHANGED tickets
               /\ UninstallAck(p, r, TRUE)
    /\ UNCHANGED <<now, nextTicket, merchantConfig, prismaSessions, docVars, histVars>>

Uninstall ==
    \E p \in Procs :
        \/ \E s \in Shops : UninstallSessions(p, s, TRUE)
        \/ UninstallConfig(p, TRUE)
        \/ UninstallTickets(p, TRUE)

\* the uninstall webhook; Oks are the outcomes of its store calls
UninstallWith(P, Oks) ==
    \E p \in P :
        \/ \E s \in Shops : \E ok \in Oks : UninstallSessions(p, s, ok)
        \/ \E ok \in Oks : UninstallConfig(p, ok)
        \/ \E ok \in Oks : UninstallTickets(p, ok)

(* --------------------------- specifications ---------------------------- *)

EmptyFn == [x \in {} |-> Null]

Init ==
    /\ now = 0
    /\ tickets = EmptyFn
    /\ nextTicket = 1
    /\ merchantConfig = EmptyFn
    /\ prismaSessions = {}
    /\ ecomData = EmptyFn
    /\ nextKey = 1
    /\ sessionDocs = EmptyFn
    /\ storeData = {}
    /\ storePlan = EmptyFn
    /\ procs = [p \in Procs |-> Idle]
    /\ response = NoResponse
    /\ minted = EmptyFn
    /\ redeemed = [t \in TicketIds |-> 0]
    /\ issued = EmptyFn
    /\ requested = {}

OAuth == \E s \in Shops : StoreSession(s)

TicketCreate == \E s \in Shops : CreateTicket(s, TRUE)

ExchangeBy(P) ==
    \E p \in P :
        \/ \E t \in TicketIds \cup {NoId} : ExchangeFind(p, t, TRUE)
        \/ ExchangeDelete(p, TRUE)
        \/ ExchangeUpdate(p, TRUE)
        \/ ExchangeConfig(p, TRUE)

TicketExchange == ExchangeBy(Procs)

NextTicket ==
    \/ BuilderSave
    \/ Tick
    \/ AfterAuth
    \/ TicketCreate
    \/ TicketExchange
    \/ Uninstall

SpecTicket == Init /\ [][NextTicket]_vars

Provision == \E s \in Shops : ProvisionProject(s)

ConfigureBy(P, Subs) ==
    \E p \in P :
        \/ \E s \in Shops : \E e \in {EmailOf(s), Null} : ConfigureFind(p, s, e, TRUE)
        \/ ConfigureEdit(p, TRUE)
        \/ \E sub \in Subs : ConfigureCreate(p, TRUE, sub, TRUE)

Configure == ConfigureBy(Procs, {"none", "basic"})

GetConfigBy(P) ==
    \E p \in P :
        \/ \E k \in Keys \cup {NoId} : GetConfigFind(p, k, TRUE)
        \/ GetConfigStore(p, TRUE)
        \/ GetConfigPlan(p, TRUE)

GetConfig == GetConfigBy(Procs)

NextKey ==
    \/ Provision
    \/ Configure
    \/ GetConfig

SpecKey == Init /\ [][NextKey]_vars

NextOffboard ==
    \/ OAuth
    \/ Provision
    \/ Configure
    \/ Uninstall

SpecOffboard == Init /\ [][NextOffboard]_vars

PurgeBy(P) ==
    \E p \in P :
        \/ \E s \in Shops : PurgeFind(p, s, TRUE)
        \/ PurgeDelete(p, TRUE)

\* deleteEComDataByShop called between configure calls, one call at a time
NextPurge ==
    \/ Provision
    \/ ConfigureBy({"r1"}, {"none"})
    \/ PurgeBy({"r1"})

SpecPurge == Init /\ [][NextPurge]_vars

\* both exchange paths side by side, the requests made one after the other
NextExchange ==
    \/ Tick
    \/ AfterAuth
    \/ TicketCreate
    \/ ExchangeBy({"r1"})
    \/ Provision
    \/ ConfigureBy({"r1"}, {"none"})
    \/ GetConfigBy({"r1"})

SpecExchange == Init /\ [][NextExchange]_vars

\* configure calls whose email is the merchant's or one of Blanks, and whose
\* store calls answer as Oks says
ConfigureWith(P, Blanks, Subs, Oks) ==
    \E p \in P :
        \/ \E s \in Shops : \E e \in {EmailOf(s)} \cup Blanks : \E ok \in Oks :
               ConfigureFind(p, s, e, ok)
        \/ \E ok \in Oks : ConfigureEdit(p, ok)
        \/ \E sub \in Subs : \E ok \in Oks : \E billingOk \in Oks :
               ConfigureCreate(p, ok, sub, billingOk)

GetConfigWith(P, Bodies, Oks) ==
    \E p \in P :
        \/ \E k \in Keys \cup Bodies : \E ok \in Oks : GetConfigFind(p, k, ok)
        \/ \E ok \in Oks : GetConfigStore(p, ok)
        \/ \E ok \in Oks : GetConfigPlan(p, ok)

BillingWith(P, Params, Subs, Oks) ==
    \E p \in P :
        \/ \E s \in Shops \cup {Null} : \E param \in Params : BillingStart(p, s, param)
        \/ \E sub \in Subs : \E ok \in Oks : BillingQuery(p, sub, ok)
        \/ \E ok \in Oks : BillingFind(p, ok)
        \/ \E ok \in Oks : BillingWrite(p, ok)

\* first-time and repeated configure calls, two at a time
NextConfigure ==
    \/ Provision
    \/ ConfigureWith(Procs, {Null, ""}, {"none", "basic"}, {TRUE})

SpecConfigure == Init /\ [][NextConfigure]_vars

\* billing callbacks of shops with and without project
NextBilling ==
    \/ Provision
    \/ BillingWith({"r1"}, PlanParams, Subscriptions, {TRUE})

SpecBilling == Init /\ [][NextBilling]_vars

\* the two writers of plan values
NextPlan ==
    \/ Provision
    \/ ConfigureWith({"r1"}, {Null}, {"premium", "other"}, {TRUE})
    \/ BillingWith({"r1"}, {Null, "basic", "__proto__"}, {"none", "other"}, {TRUE})

SpecPlan == Init /\ [][NextPlan]_vars

BillingRequestWith(P, Plans_, Outcomes) ==
    \E p \in P : \E s \in Shops : \E json \in BOOLEAN :
        \E plan \in Plans_ : \E o \in Outcomes :
            BillingRequest(p, s, json, plan, o)

\* billing callbacks with and without shop and plan parameter, while the
\* platform and the store may fail
NextCallback ==
    \/ Provision
    \/ BillingWith({"r1"}, PlanParams, {"none", "premium"}, BOOLEAN)

SpecCallback == Init /\ [][NextCallback]_vars

\* billing requests for the two paid plans and billing callbacks, of shops
\* with and without project
NextUpgrade ==
    \/ Provision
    \/ BillingRequestWith({"r1"}, {"basic", "premium"}, {"url", "error"})
    \/ BillingWith({"r1"}, {Null, "basic", "premium"}, {"none", "premium"}, {TRUE})

SpecUpgrade == Init /\ [][NextUpgrade]_vars

\* billing requests with every plan value and every outcome of the platform
NextRequest == BillingRequestWith({"r1"}, RequestPlans, BillingOutcomes)

SpecRequest == Init /\ [][NextRequest]_vars

\* get-config between configure calls, project creation and billing callbacks
NextResolve ==
    \/ Provision
    \/ ConfigureWith({"r1"}, {Null}, {"none"}, {TRUE})
    \/ GetConfigWith({"r1"}, {NoId}, {TRUE})
    \/ BillingWith({"r1"}, {Null, "basic"}, {"premium"}, {TRUE})

SpecResolve == Init /\ [][NextResolve]_vars

\* configure and get-config when a call to the store may fail
NextFault ==
    \/ Provision
    \/ ConfigureWith({"r1"}, {Null}, {"none", "basic"}, BOOLEAN)
    \/ GetConfigWith({"r1"}, {NoId, NoBody}, BOOLEAN)
    \/ BillingWith({"r1"}, {Null}, {"premium"}, BOOLEAN)

SpecFault == Init /\ [][NextFault]_vars

\* the session storage called with the sessions of one shop, next to the
\* offline session of another; every call may fail
NextSession ==
    \/ \E s \in SessionsOf("a.myshopify.com") \cup {OfflineSession("b.myshopify.com")} :
           \E ok \in BOOLEAN : StoreSessionOf(s, ok)
    \/ \E id \in SessionIds : \E ok \in BOOLEAN : LoadSession(id, ok)
    \/ \E ids \in SUBSET SessionIds : \E failed \in SUBSET ids :
           DeleteSessions(ids, failed)

SpecSession == Init /\ [][NextSession]_vars

ScopesUpdateWith(P, Oks) ==
    \E p \in P :
        \/ \E s \in Shops : \E c \in CurrentScopes : \E ok \in Oks :
               ScopesAuth(p, s, c, ok)
        \/ \E ok \in Oks : ScopesLoad(p, ok)
        \/ \E ok \in Oks : ScopesStore(p, ok)

\* scopes_update webhooks while the session of a shop is stored, replaced
\* with a new access token, and deleted
NextScopes ==
    \/ \E s \in {OfflineSession("a.myshopify.com"),
                  RefreshedSession("a.myshopify.com")} : StoreSessionOf(s, TRUE)
    \/ DeleteSessions({OfflineId("a.myshopify.com")}, {})
    \/ ScopesUpdateWith({"r1"}, {TRUE})

SpecScopes == Init /\ [][NextScopes]_vars

\* uninstall webhooks for shops in every state of installation, with
\* cleanup calls that may fail
NextUninstall ==
    \/ OAuth
    \/ AfterAuth
    \/ BuilderSave
    \/ TicketCreate
    \/ UninstallWith({"r1"}, BOOLEAN)

SpecUninstall == Init /\ [][NextUninstall]_vars

\* the ticket resolvers of the GraphQL endpoint
ValidateBy(P) ==
    \E p \in P :
        \/ \E t \in TicketIds : ValidateFind(p, t, TRUE)
        \/ ValidateDelete(p, TRUE)

\* the two entry points that create tickets, called with and without a
\* session, and the requests that read the tickets
NextGraphQL ==
    \/ Tick
    \/ AfterAuth
    \/ TicketCreate
    \/ \E res \in {"Unauthorized", "InternalError"} : CreateTicketNoSession(res)
    \/ \E c \in Shops \cup {Null} : \E s \in Shops : GqlCreateTicket(c, s, TRUE)
    \/ ValidateBy(Procs)
    \/ ExchangeBy(Procs)

SpecGraphQL == Init /\ [][NextGraphQL]_vars

\* tickets that are created, validated and exchanged while time passes,
\* one request at a time, with no uninstall
NextCollect ==
    \/ Tick
    \/ AfterAuth
    \/ TicketCreate
    \/ ValidateBy({"r1"})
    \/ ExchangeBy({"r1"})

\* requests for every ticket keep arriving, and a handler that has started
\* runs to its end
FairCollect ==
    /\ \A t \in TicketIds : /\ SF_vars(ValidateFind("r1", t, TRUE))
                             /\ SF_vars(ExchangeFind("r1", t, TRUE))
    /\ WF_vars(ValidateDelete("r1", TRUE))
    /\ WF_vars(ExchangeDelete("r1", TRUE))
    /\ WF_vars(ExchangeUpdate("r1", TRUE))
    /\ WF_vars(ExchangeConfig("r1", TRUE))

SpecCollect == Init /\ [][NextCollect]_vars /\ FairCollect

\* the dashboard loader; Oks are the outcomes of its store calls, Checks
\* those of the billing check
DashboardWith(P, Subs, Oks, Checks) ==
    \E p \in P :
        \/ \E s \in Shops : \E k \in Keys \cup {NoId} : \E okData, ok \in Oks :
               DashboardFind(p, s, k, okData, ok)
        \/ \E ok \in Oks : DashboardPlan(p, ok)
        \/ \E sub \in Subs : \E ok \in Checks : DashboardBilling(p, sub, ok)

\* the dashboard of shops with and without a project and a persisted plan;
\* the store answers, the billing check may fail
NextDashboard ==
    \/ Provision
    \/ ConfigureWith({"r1"}, {Null}, {"none"}, {TRUE})
    \/ BillingWith({"r1"}, {Null, "basic"}, {"premium"}, {TRUE})
    \/ DashboardWith({"r1"}, Subscriptions, {TRUE}, BOOLEAN)

SpecDashboard == Init /\ [][NextDashboard]_vars

(* ------------------------- claims: the tickets -------------------------- *)

\* C1: an exchange of ticket t that starts after some exchange of t has
\* returned the credential bundle is answered 401 "Invalid ticket" and
\* carries no credentials.
C1_SequentialSingleUse ==
    (response.op = "exchange" /\ response.after)
        => /\ response.result = "InvalidTicket"
           /\ Status(response.result) = 401
           /\ response.out = NoOut

\* a second exchange of a redeemed ticket has been answered
C1_Witness ==
    /\ response.op = "exchange" /\ response.after
    /\ response.result = "InvalidTicket"
    /\ redeemed[response.id] = 1

\* C2: of two concurrent exchanges of one ticket at most one returns the
\* credential bundle, whatever the interleaving of their store steps.
C2_AtMostOneExchange == \A t \in TicketIds : redeemed[t] <= 1

\* C3: an exchange that found the ticket stored, unused and expired is
\* answered 401 "Ticket expired" without credentials, and the ticket is no
\* longer in the store when the response is sent.
C3_ExpiredExchange ==
    [][\A p \in Procs :
          (procs[p].op = "exchange" /\ procs[p].pc = "delete" /\ procs'[p].pc = "idle")
              => /\ response'.result = "TicketExpired"
                 /\ Status(response'.result) = 401
                 /\ response'.out = NoOut
                 /\ procs[p].id \notin DOMAIN tickets']_vars

(* --------------------- claims: isolation of tenants --------------------- *)

\* the values of a response body that identify a tenant
TenantValues(o) == {o.shop, o.accessToken, o.email, o.dbName, o.builderData}

\* the values that belong to shop b
OwnedBy(b) == {b, AccessTokenOf(b), EmailOf(b), DbNameOf(b), BuilderDataOf(b)}

\* C4: a get-config with a key issued to shop A and an exchange of a ticket
\* created for shop A return A as the shop and no shop, accessToken, email,
\* dbName or builderData that belongs to another shop B.
C4_TenantIsolation ==
    /\ (response.op = "getConfig" /\ response.result = "Config")
          => /\ response.out.shop = issued[response.id].shop
             /\ \A b \in Shops \ {issued[response.id].shop} :
                    TenantValues(response.out) \cap OwnedBy(b) = {}
    /\ (response.op = "exchange" /\ response.result = "Credentials")
          => /\ response.out.shop = minted[response.id]
             /\ \A b \in Shops \ {minted[response.id]} :
                    TenantValues(response.out) \cap OwnedBy(b) = {}

\* a credential response is sent while the other shop has data of its own
C4_Witness ==
    \E b \in Shops :
        /\ \/ /\ response.op = "exchange" /\ response.result = "Credentials"
              /\ response.out.shop # b
              /\ b \in DOMAIN merchantConfig
              /\ merchantConfig[b].accessToken = AccessTokenOf(b)
           \/ /\ response.op = "getConfig" /\ response.result = "Config"
              /\ response.out.shop # b
              /\ response.out.dbName # Null
              /\ b \in storeData
              /\ \E k \in DOMAIN ecomData : ecomData[k].shop = b

(* ----------------------- claims: the access keys ------------------------ *)

\* C5: a configure call of a tenant without project that carries an email
\* returns {accessKey, isNew: true}, and a get-config with a key such a call
\* returned succeeds with the shop and the email of that call and isNew = true.
C5_CreateRoundTrip ==
    /\ (response.op = "configure" /\ ~response.proj /\ response.email # Null)
          => /\ response.result = "AccessKey"
             /\ response.out.isNew
             /\ response.out.id # NoId
    /\ (/\ response.op = "getConfig"
        /\ response.id \in DOMAIN issued
        /\ ~issued[response.id].proj
        /\ issued[response.id].email # Null)
          => /\ response.result = "Config"
             /\ response.out.shop = issued[response.id].shop
             /\ response.out.email = issued[response.id].email
             /\ response.out.isNew

\* get-config has answered for a key of a first-time configure call
C5_Witness ==
    /\ response.op = "getConfig" /\ response.result = "Config"
    /\ response.id \in DOMAIN issued
    /\ ~issued[response.id].proj
    /\ response.out.email = EmailOf(response.out.shop)

\* C6: a configure call of a tenant whose project exists returns isNew =
\* false whether or not the body has an email, the record it creates carries
\* only shop and dbName, and get-config on the returned key returns the
\* dbName of the project with isNew = false.
C6_EditRoundTrip ==
    /\ (response.op = "configure" /\ response.proj)
          => /\ response.result = "AccessKey"
             /\ ~response.out.isNew
             /\ response.out.id \in DOMAIN ecomData
             /\ ecomData[response.out.id] =
                   [NoDoc EXCEPT !.command = "shopify_edit",
                                 !.shop = response.shop,
                                 !.dbName = DbNameOf(response.shop)]
    /\ (/\ response.op = "getConfig"
        /\ response.id \in DOMAIN issued
        /\ issued[response.id].proj)
          => /\ response.result = "Config"
             /\ response.out.dbName = DbNameOf(issued[response.id].shop)
             /\ ~response.out.isNew

\* get-config has answered for a key of a configure call that carried an
\* email although the project existed
C6_Witness ==
    /\ response.op = "getConfig" /\ response.result = "Config"
    /\ response.id \in DOMAIN issued
    /\ issued[response.id].proj
    /\ issued[response.id].email # Null
    /\ response.out.dbName # Null

C8_OffboardingComplete ==
    (response.op = "uninstall" /\ response.result = "Ack" /\ ~response.fault)
        => /\ FindSessionsByShop(response.shop) = {}
           /\ \A k \in DOMAIN issued :
                 issued[k].shop = response.shop => FindEComDataByKey(k, TRUE) = NoDoc

\* C9: after deleteEComDataByShop(shop) has completed, no record with
\* data.shop = shop is left, however many there were.
C9_PurgeAllRecords ==
    (response.op = "purge" /\ response.result = "Purged")
        => \A k \in DOMAIN ecomData : ecomData[k].shop # response.shop

\* C10: get-config without key answers 400 and makes no store read; with a
\* key that matches no record it answers 401, not 404, with an empty body.
C10_RejectBadKey ==
    /\ (response.op = "getConfig" /\ response.id = NoId)
          => /\ response.result = "KeyRequired"
             /\ Status(response.result) = 400
             /\ response.calls = {}
             /\ response.out = NoOut
    /\ (response.op = "getConfig" /\ response.id # NoId
                                  /\ response.id \notin DOMAIN ecomData)
          => /\ response.result = "InvalidKey"
             /\ Status(response.result) = 401
             /\ response.out = NoOut

\* an unknown key has been rejected while records of other keys exist
C10_Witness ==
    /\ response.op = "getConfig" /\ response.result = "InvalidKey"
    /\ response.id # NoId
    /\ DOMAIN ecomData # {}

(* -------------------- claims: configure, get-config --------------------- *)

\* C11: a configure call of a shop without project whose body has no email,
\* or an empty one, is answered 400 in a step that changes no store, and no
\* key is ever issued to such a call.
C11_MissingEmail ==
    [][/\ (/\ response' # response
           /\ response'.op = "configure"
           /\ ~response'.proj
           /\ response'.email \in {Null, ""})
             => /\ response'.result = "EmailRequired"
                /\ Status(response'.result) = 400
                /\ UNCHANGED <<docVars, prismaVars>>
       /\ \A k \in DOMAIN issued' :
             issued'[k].proj \/ issued'[k].email \notin {Null, ""}]_vars

\* a call with an empty email has been refused for a shop that has no
\* project, while records of earlier calls exist
C11_Witness ==
    /\ response.op = "configure" /\ response.result = "EmailRequired"
    /\ response.email = ""
    /\ response.shop \notin storeData
    /\ DOMAIN ecomData # {}

\* C12: a get-config request during which a call to the document store
\* failed is answered with the generic 500, never with 401 or with a 200.
C12_UpstreamFailure ==
    (response.op = "getConfig" /\ response.fault)
        => /\ response.result = "InternalError"
           /\ Status(response.result) = 500

\* C13: a configure call for a shop whose project existed when the call
\* started never returns isNew = true and never creates a "shopify-create"
\* record, whether or not the project lookup answers.
C13_NoRegression ==
    /\ (response.op = "configure" /\ response.proj)
          => ~(response.result = "AccessKey" /\ response.out.isNew)
    /\ \A k \in DOMAIN issued :
          issued[k].proj => issued[k].doc.command # "shopify-create"

\* C15: every step of a get-config request, whatever it answers, leaves the
\* ECommerceAppData records, the session records and the StoreData documents
\* with their metadata as they were.
C15_ResolveReadOnly ==
    [][(\/ \E p \in Procs : /\ procs'[p] # procs[p]
                             /\ "getConfig" \in {procs[p].op, procs'[p].op}
        \/ response' # response /\ response'.op = "getConfig")
           => UNCHANGED <<ecomData, nextKey, sessionDocs, storeData, storePlan>>]_vars

\* get-config has answered with the plan it read from a metadata document
C15_Witness ==
    /\ response.op = "getConfig" /\ response.result = "Config"
    /\ response.out.dbName \in DOMAIN storePlan
    /\ response.out.plan = "premium"

\* C14: two successful get-config calls with the same key, one answered
\* after the other, return the same shop and the same dbName, whatever
\* happened between them.
C14_ResolveIdempotent ==
    [][(/\ response.op = "getConfig" /\ response.result = "Config"
        /\ response'.op = "getConfig" /\ response'.result = "Config"
        /\ response'.id = response.id)
           => /\ response'.out.shop = response.out.shop
              /\ response'.out.dbName = response.out.dbName]_vars

\* C16: a successful get-config returns the dbName embedded in the matched
\* record without a project lookup; for a record without dbName it makes the
\* lookup for the record's shop and returns the dbName of the project, or
\* null when the shop has none.
C16_DbNameResolution ==
    [][\A p \in Procs :
          (/\ procs[p].op = "getConfig" /\ procs'[p].pc = "idle"
           /\ response'.result = "Config")
              => LET rec == ecomData[procs[p].id]
                 IN IF rec.dbName # Null
                    THEN /\ response'.out.dbName = rec.dbName
                         /\ "findStoreByShopUrl" \notin response'.calls
                    ELSE /\ "findStoreByShopUrl" \in response'.calls
                         /\ response'.out.dbName =
                               IF rec.shop \in storeData THEN DbNameOf(rec.shop)
                               ELSE Null]_vars

\* get-config has found, by the lookup, the project of a record that was
\* written before the project existed
C16_Witness ==
    /\ response.op = "getConfig" /\ response.result = "Config"
    /\ ecomData[response.id].dbName = Null
    /\ response.out.dbName = DbNameOf(response.out.shop)

\* C17: a successful get-config returns plan "freemium" when the dbName it
\* resolved is null, and otherwise the paymentPlan stored at that moment in
\* the metadata document of that database, "freemium" when there is none.
C17_PlanResolution ==
    [][\A p \in Procs :
          (/\ procs[p].op = "getConfig" /\ procs'[p].pc = "idle"
           /\ response'.result = "Config")
              => response'.out.plan =
                    IF response'.out.dbName = Null THEN "freemium"
                    ELSE IF response'.out.dbName \in DOMAIN storePlan
                    THEN storePlan[response'.out.dbName]
                    ELSE "freemium"]_vars

\* get-config has returned a plan that a billing callback had stored
C17_Witness ==
    /\ response.op = "getConfig" /\ response.result = "Config"
    /\ response.out.plan = "basic"
    /\ response.out.dbName \in DOMAIN storePlan
    /\ storePlan[response.out.dbName] = "basic"

(* --------------------------- claims: the plans -------------------------- *)

\* C18: a billing callback for a shop whose plan parameter is the name of
\* the basic or of the premium plan resolves that plan and makes no query of
\* the active subscriptions; the query is made only by callbacks whose
\* parameter is absent or is not one of the two names.
C18_PlanPriority ==
    \A r \in {procs[p] : p \in Procs} \cup {response} :
        (r.op = "billing" /\ r.shop # Null)
            => /\ r.param = "basic" => r.plan = "basic"
               /\ r.param = "premium" => r.plan = "premium"
               /\ r.param \in {"basic", "premium"}
                     => "activeSubscriptions" \notin r.calls
               /\ "activeSubscriptions" \in r.calls
                     => r.param \notin {"basic", "premium"}

\* a callback with the premium plan in its URL has written the plan of a
\* shop that has a project
C18_Witness ==
    /\ response.op = "billing" /\ response.result = "AppRedirect"
    /\ response.param = "premium"
    /\ response.proj
    /\ response.calls = {"findStoreByShopUrl"}

\* C19: when a billing callback has resolved one of the plans, the project
\* lookup for a shop with project is followed by a write that makes the
\* paymentPlan of the project's database the resolved plan and changes
\* nothing else; for a shop without project the callback ends with the
\* lookup, and no step of a callback other than that write changes a store.
C19_WriteBack ==
    [][\A p \in Procs :
          (procs[p].op = "billing" /\ procs'[p] # procs[p])
              => /\ (procs[p].pc = "findStore" /\ procs[p].plan \in Plans)
                       => IF procs[p].shop \in storeData
                          THEN procs'[p].pc = "write"
                          ELSE procs'[p].pc = "idle"
                 /\ (procs[p].pc = "write" /\ procs[p].plan \in Plans)
                       => /\ DbNameOf(procs[p].shop) \in DOMAIN storePlan'
                          /\ storePlan'[DbNameOf(procs[p].shop)] = procs[p].plan
                          /\ \A d \in DOMAIN storePlan \ {DbNameOf(procs[p].shop)} :
                                d \in DOMAIN storePlan' /\ storePlan'[d] = storePlan[d]
                          /\ DOMAIN storePlan' \subseteq
                                DOMAIN storePlan \cup {DbNameOf(procs[p].shop)}
                          /\ UNCHANGED <<ecomData, nextKey, sessionDocs, storeData,
                                         prismaVars>>
                 /\ procs[p].pc # "write" => UNCHANGED <<docVars, prismaVars>>]_vars

\* a callback has written the plan it learnt from the platform over the
\* plan an earlier callback had stored
C19_Witness ==
    /\ response.op = "billing" /\ response.result = "AppRedirect"
    /\ "activeSubscriptions" \in response.calls
    /\ response.proj
    /\ response.plan = "freemium"
    /\ storePlan[DbNameOf(response.shop)] = "freemium"
    /\ \E d \in DOMAIN storePlan : storePlan[d] = "premium"

\* C20: the paymentMode of every "shopify-create" record and every
\* paymentPlan in a metadata document is freemium, basic or premium, and a
\* subscription list that is empty or starts with another name gives
\* freemium in configure and in the billing callback.
C20_ClosedPlanSet ==
    /\ \A k \in DOMAIN ecomData :
          ecomData[k].command = "shopify-create" => ecomData[k].paymentMode \in Plans
    /\ \A d \in DOMAIN storePlan : storePlan[d] \in Plans
    /\ \A sub \in Subscriptions \ {"basic", "premium"} :
          /\ PaymentMode(sub, TRUE) = "freemium"
          /\ BillingStatusPlan(sub) = "freemium"

(* -------------------------- claims: the dashboard ----------------------- *)

\* C21: the dashboard loader of a shop whose project it found returns the
\* plan persisted in the project's metadata and makes no billing check; for
\* a shop without a project it makes the billing check and returns the paid
\* plan of the active subscription, freemium when the check fails or shows
\* no active payment.
C21_PersistedPlanFirst ==
    [][\A p \in Procs :
          (procs[p].op = "dashboard" /\ procs'[p].op = "none")
              => LET r == response'
                      db == DbNameOf(r.shop)
                 IN /\ r.op = "dashboard" /\ r.result = "Dashboard"
                    /\ IF r.proj
                       THEN /\ "billing.check" \notin r.calls
                            /\ r.out.plan = IF db \in DOMAIN storePlan
                                            THEN storePlan[db] ELSE "freemium"
                       ELSE /\ "billing.check" \in r.calls
                            /\ r.out.plan = IF ~r.fault /\ r.param \in {"basic", "premium"}
                                            THEN r.param ELSE "freemium"]_vars

\* the dashboard of a shop with a project showed the paid plan persisted
\* for it, without a billing check
C21_Witness ==
    /\ response.op = "dashboard" /\ response.proj
    /\ response.out.plan \in {"basic", "premium"}
    /\ "billing.check" \notin response.calls

(* --------------------- claims: the life of a ticket --------------------- *)

\* the used flag of ticket t is set
Used(store, t) == t \in DOMAIN store /\ store[t].used

\* C22 as stated: the used flag of a stored ticket never goes from true to
\* false, it is set by no step other than the update of an exchange, and
\* every exchange that has set it returns the credential bundle.
C22_OnlySuccessfulExchange ==
    [][/\ \A t \in TicketIds :
            /\ (Used(tickets, t) /\ t \in DOMAIN tickets') => Used(tickets', t)
            /\ (Used(tickets', t) /\ ~Used(tickets, t))
                   => \E p \in Procs : /\ procs[p].op = "exchange"
                                       /\ procs[p].id = t
                                       /\ procs'[p].pc = "config"
       /\ \A p \in Procs :
            (procs[p].op = "exchange" /\ procs[p].pc = "config"
                /\ procs'[p].op = "none")
                => response'.result = "Credentials"]_vars

\* C22: the used flag of a stored ticket never goes from true to false, and
\* it goes from false to true only in the update step of an exchange that
\* read the ticket stored and unused; createTicket and validateTicket never
\* set it. The exchange that set it may still be answered 404 or 500.
C22_UsedMonotone ==
    [][\A t \in TicketIds :
          /\ (Used(tickets, t) /\ t \in DOMAIN tickets') => Used(tickets', t)
          /\ (Used(tickets', t) /\ ~Used(tickets, t))
                 => /\ t \in DOMAIN tickets
                    /\ \E p \in Procs : /\ procs[p].op = "exchange"
                                        /\ procs[p].id = t
                                        /\ procs[p].pc = "update"
                                        /\ procs'[p].pc = "config"]_vars

\* an exchange has set the used flag of a ticket and was answered 404: the
\* ticket is used and nobody received its credentials
C22_Witness ==
    /\ response.op = "exchange" /\ response.result = "ConfigNotFound"
    /\ Used(tickets, response.id)
    /\ redeemed[response.id] = 0

\* C23: an exchange or a validateTicket that read a ticket whose expiresAt
\* was earlier than the time of the read, used or not, returns no
\* credentials and does not answer true.
C23_ExpiredIsInvalid ==
    (response.op \in {"exchange", "validateTicket"} /\ response.expired)
        => /\ response.result \notin {"Credentials", "Valid"}
           /\ response.out = NoOut

\* an exchange of a ticket that was both used and expired has been rejected
C23_Witness ==
    /\ response.op = "exchange" /\ response.expired
    /\ Used(tickets, response.id)
    /\ response.result = "InvalidTicket"

\* C24: every request that minted a ticket for shop S, through the REST
\* route or through the createTicket mutation, carried a platform session
\* of S.
C24_SessionRequired ==
    response.result = "Ticket" => response.caller = response.shop

\* the step of slot p that starts an exchange of ticket t
ExchangeStarts(p, t) ==
    /\ Free(p)
    /\ \/ procs'[p].op = "exchange" /\ procs'[p].id = t
       \/ /\ procs' = procs /\ response' # response
          /\ response'.op = "exchange" /\ response'.id = t

\* C25: a createTicket that answers with ticket t has stored t bound to the
\* given shop with used = false and expiresAt = creation time + 5 minutes;
\* an exchange that reads t stored, unused and not past expiresAt is not
\* rejected, its update sets the used flag while t is still stored, and with
\* a merchant config present for the shop it returns the bundle of the
\* shop t was minted for.
C25_MintAndExchange ==
    [][/\ (response' # response /\ response'.result = "Ticket")
            => LET t == response'.out.id
               IN /\ response'.op \in {"createTicket", "gqlCreateTicket"}
                  /\ t \notin DOMAIN tickets
                  /\ tickets'[t] = [shop |-> response'.shop, used |-> FALSE,
                                     expiresAt |-> now + 5]
       /\ \A p \in Procs :
            /\ \A t \in DOMAIN tickets :
                  (ExchangeStarts(p, t) /\ ~tickets[t].used
                      /\ ~(tickets[t].expiresAt < now))
                      => procs'[p].op = "exchange" /\ procs'[p].pc = "update"
            /\ (procs[p].op = "exchange" /\ procs[p].pc = "update"
                    /\ procs'[p] # procs[p] /\ procs[p].id \in DOMAIN tickets)
                    => procs'[p].pc = "config" /\ Used(tickets', procs[p].id)
            /\ (procs[p].op = "exchange" /\ procs[p].pc = "config"
                    /\ procs'[p] # procs[p]
                    /\ minted[procs[p].id] \in DOMAIN merchantConfig)
                    => LET c == merchantConfig[minted[procs[p].id]]
                       IN /\ response'.result = "Credentials"
                          /\ response'.out.shop = minted[procs[p].id]
                          /\ response'.out.accessToken = c.accessToken
                          /\ response'.out.apiKey = c.apiKey
                          /\ response'.out.builderData = c.builderData]_vars

\* the first exchange of a fresh ticket has returned the bundle of the shop
\* the ticket was minted for
C25_Witness ==
    /\ response.op = "exchange" /\ response.result = "Credentials"
    /\ ~response.after /\ ~response.expired
    /\ response.out.shop = minted[response.id]
    /\ response.out.accessToken = AccessTokenOf(minted[response.id])

(* --------------------------- claims: uninstall -------------------------- *)

\* shop s has no session row, no merchant config and no ticket
CleanShop(s) ==
    /\ s \notin prismaSessions
    /\ s \notin DOMAIN merchantConfig
    /\ \A t \in DOMAIN tickets : tickets[t].shop # s

\* C26: a step of the uninstall handler for shop s changes nothing when s
\* has no session, no merchant config and no ticket; whatever a step
\* deleted, repeating the same delete on the state it left deletes nothing
\* more, so a second run in a row leaves the state of the first; and the
\* handler completes with the empty 200 response.
C26_OffboardingIdempotent ==
    [][\A p \in Procs :
          (procs'[p] # procs[p] /\ "uninstall" \in {procs[p].op, procs'[p].op})
              => LET s == IF procs[p].op = "uninstall" THEN procs[p].shop
                          ELSE procs'[p].shop
                 IN /\ CleanShop(s) => UNCHANGED <<prismaVars, docVars>>
                    /\ prismaSessions' # prismaSessions => s \notin prismaSessions'
                    /\ merchantConfig' # merchantConfig
                           => s \notin DOMAIN merchantConfig'
                    /\ tickets' # tickets
                           => \A t \in DOMAIN tickets' : tickets'[t].shop # s
                    /\ \A o \in Shops \ {s} :
                          /\ (o \in DOMAIN merchantConfig) = (o \in DOMAIN merchantConfig')
                          /\ \A t \in DOMAIN tickets :
                                tickets[t].shop = o => t \in DOMAIN tickets'
                    /\ procs'[p].op = "none"
                           => /\ response'.op = "uninstall"
                              /\ Status(response'.result) = 200]_vars

\* the uninstall handler has run for a shop right after a completed run for
\* the same shop, and the shop is clean
C26_Witness ==
    /\ response.op = "uninstall" /\ response.after /\ ~response.fault
    /\ response.result = "Ack"
    /\ CleanShop(response.shop)

\* C27: whichever cleanup call of an authenticated uninstall webhook fails,
\* the handler answers with the empty 200 response.
C27_AlwaysAcknowledge ==
    response.op = "uninstall"
        => /\ response.result = "Ack"
           /\ Status(response.result) = 200
           /\ response.out = NoOut

\* an uninstall whose cleanup failed has been acknowledged
C27_Witness ==
    /\ response.op = "uninstall" /\ response.fault
    /\ response.result = "Ack"

(* -------------------------- claims: the audit log ----------------------- *)

\* C28: every get-config request that has been answered, with 200, 400,
\* 401 or 500, has written a log entry that carries the caller IP.
C28_EveryAttemptLogged ==
    response.op = "getConfig" => \E e \in response.log : e.ip

(* ----------------------- claims: the session storage -------------------- *)

\* C29: a deleteSessions(ids) during which the delete of at least one id
\* failed at the document store does not return true.
C29_BatchAccepted ==
    (response.op = "deleteSessions" /\ response.fault)
        => response.result # "True"

\* the response before the step is a storeSession that returned true and
\* the response after it a loadSession of the same id that the store answered
StoreThenLoad ==
    /\ response.op = "storeSession" /\ response.result = "True"
    /\ response'.op = "loadSession" /\ ~response'.fault
    /\ response'.param = response.session.id

\* the step is a storeSession that the store accepted
Stores ==
    /\ response' # response
    /\ response'.op = "storeSession" /\ response'.result = "True"

\* C30 as stated: loadSession(s.id) right after storeSession(s) returns a
\* session with the id, shop, state, isOnline, scope and accessToken of s;
\* storeSession of a session without onlineAccessInfo stores null in every
\* user field; and the loaded session has onlineAccessInfo exactly when the
\* document has a user id.
C30_RoundTrip ==
    [][/\ StoreThenLoad
            => LET s == response.session
                    l == response'.session
               IN /\ response'.result = "Session"
                  /\ l.id = s.id /\ l.shop = s.shop /\ l.state = s.state
                  /\ l.isOnline = s.isOnline
                  /\ l.scope = s.scope /\ l.accessToken = s.accessToken
                  /\ (l.onlineAccessInfo # NoInfo) = (sessionDocs[s.id].userId # Null)
       /\ (Stores /\ response'.session.onlineAccessInfo = NoInfo)
            => LET doc == sessionDocs'[response'.session.id]
               IN /\ doc.userId = Null /\ doc.email = Null
                  /\ doc.accountOwner = Null]_vars

\* C30: loadSession(s.id) right after storeSession(s) returns a session
\* with the id, shop, state and isOnline of s, and with its scope and
\* accessToken except that an empty string comes back absent; storeSession
\* of a session without onlineAccessInfo stores null in the user id and
\* the user's text fields and false in the user's flags; and the loaded
\* session has onlineAccessInfo exactly when the document has a user id.
C30_RoundTripNonEmpty ==
    [][/\ StoreThenLoad
            => LET s == response.session
                    l == response'.session
               IN /\ response'.result = "Session"
                  /\ l.id = s.id /\ l.shop = s.shop /\ l.state = s.state
                  /\ l.isOnline = s.isOnline
                  /\ l.scope = IF s.scope = "" THEN Null ELSE s.scope
                  /\ l.accessToken = IF s.accessToken = "" THEN Null
                                     ELSE s.accessToken
                  /\ (l.onlineAccessInfo # NoInfo) = (sessionDocs[s.id].userId # Null)
                  /\ (l.onlineAccessInfo # NoInfo) = (s.onlineAccessInfo # NoInfo)
       /\ (Stores /\ response'.session.onlineAccessInfo = NoInfo)
            => LET doc == sessionDocs'[response'.session.id]
               IN /\ doc.userId = Null /\ doc.email = Null
                  /\ doc.accountOwner = "false"]_vars

\* a session stored with an empty scope and with its user has been loaded:
\* the scope is absent and onlineAccessInfo is rebuilt
C30_Witness ==
    /\ response.op = "loadSession" /\ response.result = "Session"
    /\ sessionDocs[response.param].scope = ""
    /\ sessionDocs[response.param].userId = UserId
    /\ response.session.scope = Null
    /\ response.session.onlineAccessInfo.id = UserId

(* ------------------- claims: several records of one shop ---------------- *)

\* C31: the record the dashboard loader gets from findEComDataByShop is the
\* most recently created record of the shop, so the access key it shows is
\* the key of the latest configure call.
C31_MostRecentRecord ==
    [][\A p \in Procs :
          (Free(p) /\ procs'[p].op = "dashboard" /\ ~procs'[p].fault)
              => \A k \in DOMAIN ecomData :
                    ecomData[k].shop = procs'[p].shop => k <= procs'[p].id]_vars

(* ------------------- claims: collection of the tickets ------------------ *)

\* C32: a stored ticket that has been used or is past its expiry is
\* eventually removed from the store, when exchange and validate requests
\* for it keep arriving and their handlers keep running.
C32_TicketCollected ==
    \A t \in TicketIds :
        (t \in DOMAIN tickets /\ (tickets[t].used \/ tickets[t].expiresAt < now))
            ~> (t \notin DOMAIN tickets)

ExchangeEnds ==
    /\ response'.op = "exchange"
    /\ \/ response' # response
       \/ \E p \in Procs : procs[p].op = "exchange" /\ procs'[p].op = "none"

\* C34 as stated: an exchange ends in 200, 400, 401, 404 or 500, and an
\* exchange that leaves its ticket with used = true has returned the
\* credential bundle.
C34_ExchangeOutcomes ==
    [][ExchangeEnds
          => /\ Status(response'.result) \in {200, 400, 401, 404, 500}
             /\ \A p \in Procs :
                   (procs[p].op = "exchange" /\ procs[p].pc = "config"
                       /\ procs'[p].op = "none" /\ Used(tickets', procs[p].id))
                       => response'.result = "Credentials"]_vars

\* C34: an exchange ends in 200, 400, 401, 404 or 500 and only the 200
\* carries credentials; 400 is the answer to a missing ticket and to nothing
\* else; 404 is sent only when the shop of the ticket has no merchant
\* config, and then the exchange has already set used = true, so it leaves
\* the ticket used without having returned the bundle; a 200 returns the
\* bundle of the shop the ticket was minted for.
C34_ExchangeStatuses ==
    [][ExchangeEnds
          => LET r == response'
                  st == Status(r.result)
             IN /\ st \in {200, 400, 401, 404, 500}
                /\ (st = 400) = (r.id = NoId)
                /\ st # 200 => r.out = NoOut
                /\ st = 200 => r.out.shop = minted[r.id]
                /\ st = 404 => /\ r.shop \notin DOMAIN merchantConfig
                               /\ \E p \in Procs : /\ procs[p].op = "exchange"
                                                   /\ procs[p].pc = "config"
                                                   /\ procs'[p].op = "none"
                               /\ r.id \in DOMAIN tickets' => tickets'[r.id].used
                /\ st = 401 => UNCHANGED merchantConfig]_vars

\* an exchange was answered 404 and left its ticket used
C34_Witness ==
    /\ response.op = "exchange" /\ Status(response.result) = 404
    /\ response.id \in DOMAIN tickets /\ tickets[response.id].used
    /\ response.shop \notin DOMAIN merchantConfig

(* ------------------ claims: the steps of the uninstall ------------------ *)

\* C35: whichever cleanup step of the uninstall handler fails, the later
\* steps are still executed: every completed uninstall has called the
\* delete of the merchant config and the delete of the tickets.
C35_LaterStepsRun ==
    response.op = "uninstall"
        => {"merchantConfig.deleteMany", "oneTimeTicket.deleteMany"}
               \subseteq response.calls

\* C36: get-config never answers isNew = true together with a dbName: a key
\* issued with command shopify-create before the shop's project existed does
\* not, once the project exists, report both.
C36_NoCreateWithProject ==
    (response.op = "getConfig" /\ response.result = "Config")
        => ~(response.out.isNew /\ response.out.dbName # Null)

\* C37: the plan stored for a shop's project becomes basic or premium only
\* when a billing request for that shop and that plan was issued before, or
\* when the callback took the plan from the platform's active subscriptions.
C37_PaidPlanAfterRequest ==
    [][\A p \in Procs :
          (/\ procs[p].op = "billing" /\ procs[p].pc = "write"
           /\ DbNameOf(procs[p].shop) \in DOMAIN storePlan'
           /\ storePlan'[DbNameOf(procs[p].shop)] \in {"basic", "premium"}
           /\ storePlan' # storePlan)
              => \/ <<procs[p].shop, storePlan'[DbNameOf(procs[p].shop)]>> \in requested
                 \/ "activeSubscriptions" \in procs[p].calls]_vars

\* C39: the plan parameter a billing request for basic or premium puts in
\* its returnUrl is decoded by the callback to the requested plan, and a
\* request with any other plan value is answered 400 and makes no call to
\* billing.request.
C39_PlanRoundTrip ==
    response.op = "billingRequest"
        => IF response.param \in {"basic", "premium"}
           THEN /\ "billing.request" \in response.calls
                /\ PlanFromParam(SearchParamsGet(response.plan)) = response.param
           ELSE /\ Status(response.result) = 400
                /\ "billing.request" \notin response.calls

\* C38: the store step of a scopes_update webhook changes nothing but the
\* scope of the session document that is stored at that moment under the
\* webhook session's id, whatever storeSession or deleteSessions calls came
\* between its load and its store; it creates no document, and the other
\* steps of the webhook write nothing.
C38_OnlyScopeChanges ==
    [][\A p \in Procs :
          (procs[p].op = "scopes" /\ procs'[p] # procs[p])
             => LET id == procs[p].param
                IN IF id \in DOMAIN sessionDocs
                   THEN /\ DOMAIN sessionDocs' = DOMAIN sessionDocs
                        /\ \A k \in DOMAIN sessionDocs :
                              [sessionDocs'[k] EXCEPT !.scope = sessionDocs[k].scope]
                                  = sessionDocs[k]
                        /\ \A k \in DOMAIN sessionDocs \ {id} :
                              sessionDocs'[k] = sessionDocs[k]
                   ELSE sessionDocs' = sessionDocs]_vars

\* C40: a billing callback whose plan parameter gives no plan and whose
\* query of the active subscriptions fails resolves no plan, reads and
\* writes no store document and redirects into the shop's admin; a callback
\* without shop parameter redirects to /auth/login and makes no call.
C40_CallbackOnFailure ==
    [][/\ \A p \in Procs :
             (procs[p].op = "billing" /\ procs[p].pc = "query" /\ procs'[p] = Idle)
                => /\ procs[p].param \in {Null, "other"}
                   /\ response'.result = "AppRedirect"
                   /\ response'.shop = procs[p].shop
                   /\ response'.plan = Null
                   /\ response'.calls = {"activeSubscriptions"}
                   /\ UNCHANGED docVars
       /\ (response'.op = "billing" /\ response'.shop = Null /\ response' # response)
             => /\ response'.result = "LoginRedirect"
                /\ response'.calls = {}
                /\ UNCHANGED docVars]_vars

\* a callback for a shop with a project and a stored plan, with an
\* unrecognised plan parameter, ended after the query failed
C40_Witness ==
    /\ response.op = "billing" /\ response.result = "AppRedirect"
    /\ response.param = "other" /\ response.fault
    /\ response.calls = {"activeSubscriptions"}
    /\ response.shop \in storeData
    /\ DbNameOf(response.shop) \in DOMAIN storePlan
    /\ storePlan[DbNameOf(response.shop)] = "premium"

====
